---- MODULE Spec2Model ----
(***************************************************************************)
(* Library catalog REST API (authors, books): the request handlers of the   *)
(* controllers over the Author / Book / Category collections.               *)
(*                                                                          *)
(* JavaScript values are tagged tuples, so that undefined, null, a number,  *)
(* a string and an ObjectId stay distinct values (a query-string "2" is not *)
(* the number 2).                                                           *)
(***************************************************************************)
EXTENDS Integers, FiniteSets, Sequences, TLC

\* ---------------------------------------------------------------- bounds
MaxAuthors == 2      \* author ObjectIds are 1..MaxAuthors
MaxBooks == 2        \* book ObjectIds are 1..MaxBooks
MaxSetFields == 2    \* optional fields (isbn, rating, category) a book body sets
MaxPage == 3         \* page query values are "1".."MaxPage"
MaxLimit == 2        \* limit query values are "1".."MaxLimit"

\* ------------------------------------------------------------- JS values
Undefined == <<"undefined">>
Null == <<"null">>
Num(n) == <<"number", n>>
Bool(b) == <<"boolean", b>>
Str(s) == <<"string", s>>
Oid(n) == <<"ObjectId", n>>
Doc(d) == <<"document", d>>      \* a stored document, as a query returns it
\* An isbn string: pad = 1 when it carries surrounding whitespace, len its
\* number of characters once trimmed (all digits), k tells contents apart.
IsbnStr(pad, len, k) == <<"isbn", pad, len, k>>
\* An email string, well formed (matches the schema's pattern) or not.
EmailStr(wellFormed) == <<"email", wellFormed>>
\* A query-string value: the decimal numeral of n (a string, not a number).
Numeral(n) == <<"numeral", n>>

IsNum(v) == v[1] = "number"
IsNullish(v) == v = Undefined \/ v = Null

\* JS truthiness of a request value (if (req.body.author) ...)
Truthy(v) ==
  CASE v = Undefined -> FALSE
    [] v = Null -> FALSE
    [] v[1] = "number" -> v[2] # 0
    [] v[1] = "boolean" -> v[2]
    [] v[1] = "string" -> v[2] # ""
    [] OTHER -> TRUE

\* ------------------------------------------------------------ the store
VARIABLES
  authors,       \* Author collection: stored _id -> document
  books,         \* Book collection: stored _id -> document
  lastAuthorId,  \* ObjectIds handed out so far to authors (never reused)
  lastBookId,    \* ObjectIds handed out so far to books (never reused)
  resp,          \* the response to the last request handled one at a time
  proc,          \* interleaved requests: each process's request and position
  begun,         \* interleaved requests begun so far
  natural        \* the order in which the store returns Books when no sort decides
                 \* (the order of insertion, unless a store is drawn with another)

AuthorIds == 1..MaxAuthors
BookIds == 1..MaxBooks
\* The Category collection: no handler writes it. Categories 1 and 3 are
\* stored, category 2 is an id that matches no stored Category.
categories == {1, 3}
CategoryIds == {1, 2}

\* ------------------------------------------------------- request values
AuthorRefValues == {Undefined, Null} \cup {Oid(a) : a \in AuthorIds}
IsbnValues == {Undefined, IsbnStr(0, 10, 1), IsbnStr(1, 10, 1),
               IsbnStr(0, 13, 2), IsbnStr(0, 9, 3)}
RatingValues == {Undefined, Null, Num(-1), Num(5), Num(6)}
CategoryRefValues == {Undefined} \cup {Oid(c) : c \in CategoryIds}
BodyRatingValues == {Undefined, Null, Num(5), Num(6)}
SetFields(body, fields) == Cardinality({f \in fields : body[f] # Undefined})
BookBodyValues == [author : AuthorRefValues, isbn : IsbnValues,
                   rating : BodyRatingValues, category : CategoryRefValues,
                   inStock : {Undefined}]
\* req.body of POST /api/books: an author value and at most MaxSetFields of
\* the optional fields (every body carries a title)
BookBodies ==
  {body \in BookBodyValues : SetFields(body, {"isbn", "rating", "category"}) <= MaxSetFields}
\* req.body of PUT /api/books/:id: at most MaxSetFields fields
BookUpdates ==
  {body \in BookBodyValues :
     SetFields(body, {"author", "isbn", "rating", "category"}) <= MaxSetFields}

NameValues == {Undefined, Str("Ann")}
EmailValues == {Undefined, EmailStr(TRUE), EmailStr(FALSE)}
NationalityValues == {Undefined, Str("British")}
\* req.body of the author handlers: without a nationality, and (valid ones)
\* with one
AuthorBodies == [name : NameValues, email : EmailValues, nationality : {Undefined}]
NationalAuthorBodies ==
  [name : {Str("Ann")}, email : {Undefined}, nationality : NationalityValues \ {Undefined}]

\* ------------------------------------------------------------ envelope
Res(status, success, message, data) ==
  [status |-> status, success |-> success, message |-> message, data |-> data]
\* A message is a tuple of its parts (a template literal has several).
MsgOmitted(text) == << >>
Msg(text) == <<text>>
NoMessage == << >>
\* What a handler leaves and sends: the two collections and the envelope.
Out(A, B, res) == [authors |-> A, books |-> B, res |-> res]

\* -------------------------------------------------- Book schema (model)
\* trim: true on isbn
TrimIsbn(v) == IF v[1] = "isbn" THEN IsbnStr(0, v[3], v[4]) ELSE v

\* match: /^(?:\d{10}|\d{13})$/ ; validators skip null and undefined
IsbnMatches(v) == IsNullish(v) \/ (v[1] = "isbn" /\ v[2] = 0 /\ v[3] \in {10, 13})

\* rating: min 0, max 5; the min/max validators pass null and undefined
RatingInRange(v) == IsNullish(v) \/ (IsNum(v) /\ v[2] >= 0 /\ v[2] <= 5)

\* required: true (author)
Required(v) == ~IsNullish(v)

\* type: Boolean. The cast takes true, 'true', 1, '1', 'yes' to true and
\* false, 'false', 0, '0', 'no' to false, keeps null and undefined, and
\* fails on every other value.
CastBoolean(v) ==
  IF v \in {Bool(TRUE), Str("true"), Num(1), Str("1"), Str("yes")} THEN Bool(TRUE)
  ELSE IF v \in {Bool(FALSE), Str("false"), Num(0), Str("0"), Str("no")} THEN Bool(FALSE)
  ELSE v
BooleanCasts(v) == IsNullish(v) \/ CastBoolean(v)[1] = "boolean"

\* The document Book.create builds from a body: setters, then defaults
\* (a default replaces undefined only, never null).
BookDoc(body) ==
  [author |-> body.author,
   isbn |-> TrimIsbn(body.isbn),
   rating |-> IF body.rating = Undefined THEN Num(0) ELSE body.rating,
   inStock |-> IF body.inStock = Undefined THEN Bool(TRUE) ELSE CastBoolean(body.inStock)]

\* Document validation on save (a value that does not cast fails it).
ValidBookDoc(doc) ==
  /\ Required(doc.author)
  /\ IsbnMatches(doc.isbn)
  /\ RatingInRange(doc.rating)
  /\ BooleanCasts(doc.inStock)

\* Update validators (runValidators: true) run on the paths the update sets.
ValidBookUpdate(body) ==
  /\ (body.author # Undefined => Required(body.author))
  /\ IsbnMatches(TrimIsbn(body.isbn))
  /\ RatingInRange(body.rating)
  /\ BooleanCasts(body.inStock)

\* unique: true on isbn: one index key per document, a missing isbn is
\* indexed as null.
IsbnKey(v) == IF v = Undefined THEN Null ELSE v
DuplicateKeyNever(B, id, isbn) == FALSE
DuplicateKeyOnInsert(B, id, isbn) ==
  id \notin DOMAIN B /\ \E b \in DOMAIN B : IsbnKey(B[b].isbn) = IsbnKey(isbn)
DuplicateKey(B, id, isbn) ==
  \E b \in DOMAIN B \ {id} : IsbnKey(B[b].isbn) = IsbnKey(isbn)

\* ------------------------------------------------- store calls (model)
Author_findByIdAny(A, ref) == IF ref[1] = "ObjectId" THEN ref ELSE Null
Author_findById(A, ref) ==
  IF ref[1] = "ObjectId" /\ ref[2] \in DOMAIN A THEN ref ELSE Null

Category_findById(ref) ==
  IF ref[1] = "ObjectId" /\ ref[2] \in categories THEN ref ELSE Null

Book_countDocumentsNone(B, a) == 0
Book_countDocumentsByAuthor(B, a) == Cardinality({b \in DOMAIN B : B[b].author = Oid(a)})

Put(f, k, v) == [x \in DOMAIN f \cup {k} |-> IF x = k THEN v ELSE f[x]]
Drop(f, k) == [x \in DOMAIN f \ {k} |-> f[x]]

\* Book.create(body): validate, then insert under the unique index.
\* error is "" (inserted), "ValidationError" or "E11000".
Book_create(B, id, body) ==
  LET doc == BookDoc(body) IN
  IF ~ValidBookDoc(doc) THEN [error |-> "ValidationError", books |-> B, doc |-> Null]
  ELSE IF DuplicateKey(B, id, doc.isbn) THEN [error |-> "E11000", books |-> B, doc |-> Null]
  ELSE [error |-> "", books |-> Put(B, id, doc), doc |-> Doc(doc)]

\* The document after $set of the fields a body carries.
Merge(doc, body) ==
  [author |-> IF body.author = Undefined THEN doc.author ELSE body.author,
   isbn |-> IF body.isbn = Undefined THEN doc.isbn ELSE TrimIsbn(body.isbn),
   rating |-> IF body.rating = Undefined THEN doc.rating ELSE body.rating,
   inStock |-> IF body.inStock = Undefined THEN doc.inStock ELSE CastBoolean(body.inStock)]

\* Book.findByIdAndUpdate(id, body, {new: true, runValidators: true}):
\* update validators first, then one atomic find-and-modify.
\* error is "", "ValidationError" or "E11000"; doc is Null when no
\* document has that id.
Book_findByIdAndUpdate(B, id, body) ==
  IF ~ValidBookUpdate(body) THEN [error |-> "ValidationError", books |-> B, doc |-> Null]
  ELSE IF id \notin DOMAIN B THEN [error |-> "", books |-> B, doc |-> Null]
  ELSE LET doc == Merge(B[id], body) IN
       IF DuplicateKey(B, id, doc.isbn) THEN [error |-> "E11000", books |-> B, doc |-> Null]
       ELSE [error |-> "", books |-> Put(B, id, doc), doc |-> Doc(doc)]

Book_deleteUpTo(B, id) ==
  IF id \in DOMAIN B THEN [books |-> [x \in {y \in DOMAIN B : y > id} |-> B[x]], doc |-> Doc(B[id])]
  ELSE [books |-> B, doc |-> Null]
Book_findByIdAndDelete(B, id) ==
  IF id \in DOMAIN B THEN [books |-> Drop(B, id), doc |-> Doc(B[id])]
  ELSE [books |-> B, doc |-> Null]

\* ------------------------------------------------ Author schema (model)
\* name: required; email: match (a validator skips undefined)
ValidAuthorDoc(body) ==
  /\ Required(body.name)
  /\ body.email # EmailStr(FALSE)

\* Update validators run on the paths the update sets, before the query.
ValidAuthorUpdate(body) ==
  /\ (body.name # Undefined => Required(body.name))
  /\ body.email # EmailStr(FALSE)

AuthorDoc(body) == [name |-> body.name, nationality |-> body.nationality]

Author_findByIdAndUpdate(A, id, body) ==
  IF ~ValidAuthorUpdate(body) THEN [error |-> "ValidationError", authors |-> A, doc |-> Null]
  ELSE IF id \notin DOMAIN A THEN [error |-> "", authors |-> A, doc |-> Null]
  ELSE LET doc == [name |-> IF body.name = Undefined THEN A[id].name ELSE body.name,
                   nationality |-> IF body.nationality = Undefined
                                   THEN A[id].nationality ELSE body.nationality]
       IN [error |-> "", authors |-> Put(A, id, doc), doc |-> Doc(doc)]

\* ------------------------------------------------- handlers: books
\* createBook without the lookup of the category
createBookAnyCategory(body) ==
  IF Author_findById(authors, body.author) = Null
  THEN Out(authors, books, Res(404, FALSE, Msg("Author not found"), Undefined))
  ELSE LET r == Book_create(books, lastBookId + 1, body) IN
       IF r.error = "" THEN Out(authors, r.books, Res(201, TRUE, NoMessage, r.doc))
       ELSE IF r.error = "E11000"
       THEN Out(authors, books,
                Res(400, FALSE, Msg("Book with this ISBN already exists"), Undefined))
       ELSE Out(authors, books, Res(400, FALSE, Msg("Failed to create book"), Undefined))

\* POST /api/books
createBook(body) ==
  IF Author_findById(authors, body.author) = Null
  THEN Out(authors, books, Res(404, FALSE, Msg("Author not found"), Undefined))
  ELSE IF Truthy(body.category) /\ Category_findById(body.category) = Null
  THEN Out(authors, books, Res(404, FALSE, Msg("Category not found"), Undefined))
  ELSE LET r == Book_create(books, lastBookId + 1, body) IN
       IF r.error = "" THEN Out(authors, r.books, Res(201, TRUE, NoMessage, r.doc))
       ELSE IF r.error = "E11000"
       THEN Out(authors, books,
                Res(400, FALSE, Msg("Book with this ISBN already exists"), Undefined))
       ELSE Out(authors, books, Res(400, FALSE, Msg("Failed to create book"), Undefined))

\* PUT /api/books/:id
updateBook(id, body) ==
  IF Truthy(body.author) /\ Author_findById(authors, body.author) = Null
  THEN Out(authors, books, Res(404, FALSE, Msg("Author not found"), Undefined))
  ELSE IF Truthy(body.category) /\ Category_findById(body.category) = Null
  THEN Out(authors, books, Res(404, FALSE, Msg("Category not found"), Undefined))
  ELSE LET r == Book_findByIdAndUpdate(books, id, body) IN
       IF r.error # ""
       THEN Out(authors, books, Res(400, FALSE, Msg("Failed to update book"), Undefined))
       ELSE IF r.doc = Null
       THEN Out(authors, books, Res(404, FALSE, Msg("Book not found"), Undefined))
       ELSE Out(authors, r.books, Res(200, TRUE, NoMessage, r.doc))

\* DELETE /api/books/:id
deleteBook(id) ==
  LET r == Book_findByIdAndDelete(books, id) IN
  IF r.doc = Null
  THEN Out(authors, books, Res(404, FALSE, Msg("Book not found"), Undefined))
  ELSE Out(authors, r.books, Res(200, TRUE, Msg("Book deleted successfully"), r.doc))

\* PATCH /api/books/:id/stock: findByIdAndUpdate(id, { inStock }, ...); a
\* value that does not cast to a boolean is caught as 400.
updateBookStock(id, inStock) ==
  IF inStock = Undefined
  THEN Out(authors, books, Res(400, FALSE, Msg("inStock field is required"), Undefined))
  ELSE LET r == Book_findByIdAndUpdate(books, id,
                  [author |-> Undefined, isbn |-> Undefined, rating |-> Undefined,
                   category |-> Undefined, inStock |-> inStock]) IN
       IF r.error # ""
       THEN Out(authors, books, Res(400, FALSE, Msg("Failed to update book stock"), Undefined))
       ELSE IF r.doc = Null
       THEN Out(authors, books, Res(404, FALSE, Msg("Book not found"), Undefined))
       ELSE Out(authors, r.books,
                Res(200, TRUE,
                    <<"Book stock status updated to",
                      IF Truthy(inStock) THEN "in stock" ELSE "out of stock">>,
                    r.doc))

\* The guard of updateBookRating: rating === undefined || rating < 0 || rating > 5
\* (null compares as 0, so it passes).
RatingRejectedUnlessUndefined(rating) ==
  IsNum(rating) /\ (rating[2] < 0 \/ rating[2] > 5)
RatingRejected(rating) ==
  rating = Undefined \/ (IsNum(rating) /\ (rating[2] < 0 \/ rating[2] > 5))

\* PATCH /api/books/:id/rating
updateBookRating(id, rating) ==
  IF RatingRejected(rating)
  THEN Out(authors, books, Res(400, FALSE, Msg("Rating must be between 0 and 5"), Undefined))
  ELSE LET r == Book_findByIdAndUpdate(books, id,
                  [author |-> Undefined, isbn |-> Undefined,
                   rating |-> rating, category |-> Undefined, inStock |-> Undefined]) IN
       IF r.error # ""
       THEN Out(authors, books,
                Res(400, FALSE, Msg("Failed to update book rating"), Undefined))
       ELSE IF r.doc = Null
       THEN Out(authors, books, Res(404, FALSE, Msg("Book not found"), Undefined))
       ELSE Out(authors, r.books,
                Res(200, TRUE, Msg("Book rating updated successfully"), r.doc))

\* ------------------------------------------------- handlers: authors
\* POST /api/authors
createAuthor(body) ==
  IF ~ValidAuthorDoc(body)
  THEN Out(authors, books, Res(400, FALSE, Msg("Failed to create author"), Undefined))
  ELSE Out(Put(authors, lastAuthorId + 1, AuthorDoc(body)), books,
           Res(201, TRUE, Msg("Author created successfully"), Doc(AuthorDoc(body))))

\* PUT /api/authors/:id
updateAuthor(id, body) ==
  LET r == Author_findByIdAndUpdate(authors, id, body) IN
  IF r.error # ""
  THEN Out(authors, books, Res(400, FALSE, Msg("Failed to update author"), Undefined))
  ELSE IF r.doc = Null
  THEN Out(authors, books, Res(404, FALSE, Msg("Author not found"), Undefined))
  ELSE Out(r.authors, books, Res(200, TRUE, Msg("Author updated successfully"), r.doc))

\* The message of a refused delete: it carries booksCount.
CannotDelete(booksCount) ==
  <<"Cannot delete author with", booksCount,
    "associated books. Delete books first or reassign them to another author.">>

\* if (booksCount > 0)
DeleteRefusedNever(booksCount) == FALSE
DeleteRefusedAlways(booksCount) == TRUE
DeleteRefused(booksCount) == booksCount > 0

\* DELETE /api/authors/:id
deleteAuthor(id) ==
  IF Author_findById(authors, Oid(id)) = Null
  THEN Out(authors, books, Res(404, FALSE, Msg("Author not found"), Undefined))
  ELSE LET booksCount == Book_countDocumentsByAuthor(books, id) IN
       IF DeleteRefused(booksCount)
       THEN Out(authors, books, Res(400, FALSE, CannotDelete(booksCount), Undefined))
       ELSE Out(Drop(authors, id), books,
                Res(200, TRUE, Msg("Author deleted successfully"), Undefined))

\* GET /api/authors/:id : the author with the books that name it
getAuthorById(id) ==
  IF Author_findById(authors, Oid(id)) = Null
  THEN Res(404, FALSE, Msg("Author not found"), Undefined)
  ELSE Res(200, TRUE, NoMessage,
           [author |-> authors[id],
            books |-> {b \in DOMAIN books : books[b].author = Oid(id)}])

\* Later(a, b) is new Date(a) > new Date(b) on publishedDate values; a
\* stored Date is written Num(t), t its time value. new Date(undefined) is
\* an Invalid Date, whose time value NaN compares false with everything;
\* new Date(null) is the epoch.
\* books.reduce((latest, book) => (!latest || new Date(book.publishedDate) >
\* new Date(latest.publishedDate)) ? book : latest, null) over the rest of
\* the books in the order the store returned them; 0 is no book yet, and a
\* document without the path reads undefined
RECURSIVE MostRecent(_, _)
MostRecent(latest, rest) ==
  IF rest = << >> THEN latest
  ELSE LET time(v) == IF v = Null THEN 0 ELSE v[2]
           Later(a, b) == a # Undefined /\ b # Undefined /\ time(a) > time(b)
           publishedDate(b) == IF "publishedDate" \in DOMAIN books[b]
                               THEN books[b].publishedDate ELSE Undefined
           book == Head(rest)
       IN MostRecent(IF latest = 0 \/ Later(publishedDate(book), publishedDate(latest))
                     THEN book ELSE latest,
                     Tail(rest))

\* GET /api/authors/:id/stats (totalBooks and mostRecentBook of the
\* statistics; the Book is given by its id)
getAuthorStats(id) ==
  IF Author_findById(authors, Oid(id)) = Null
  THEN Res(404, FALSE, Msg("Author not found"), Undefined)
  ELSE LET found == SelectSeq(natural, LAMBDA b : books[b].author = Oid(id))
           latest == MostRecent(0, found)
       IN Res(200, TRUE, NoMessage,
              [author |-> authors[id],
               totalBooks |-> Len(found),
               mostRecentBook |-> IF latest = 0 THEN Null ELSE Oid(latest)])

\* ------------------------------------------------- list endpoints
\* const { page = 1, limit = 10 } = req.query
DefaultPage == 1
DefaultLimit == 10
Default(v, d) == IF v = Undefined THEN Num(d) ELSE v
\* limit * 1, page - 1, count / limit: a numeral string converts to its number
ToNumber(v) == v[2]
\* parseInt of a numeral string or of a number: the number
parseInt(v) == Num(v[2])
parseFloat(v) == v[2]
\* Math.ceil(a / b) for b >= 1
CeilDiv(a, b) == (a + b - 1) \div b

RECURSIVE Ascending(_)
Ascending(S) ==
  IF S = {} THEN << >>
  ELSE LET m == CHOOSE x \in S : \A y \in S : x <= y IN <<m>> \o Ascending(S \ {m})
RECURSIVE Descending(_)
Descending(S) ==
  IF S = {} THEN << >>
  ELSE LET m == CHOOSE x \in S : \A y \in S : y <= x IN <<m>> \o Descending(S \ {m})

\* .skip(skip).limit(limit) of a sorted result
Window(seq, skip, limit) ==
  SubSeq(seq, skip + 1, IF skip + limit < Len(seq) THEN skip + limit ELSE Len(seq))

\* The envelope of a list endpoint.
ListRes(data, totalPages, currentPage, total) ==
  [status |-> 200, success |-> TRUE, message |-> NoMessage, data |-> data,
   totalPages |-> totalPages, currentPage |-> currentPage, total |-> total]

\* query.rating of getAllBooks: { $gte, $lte }, each set when its parameter is
\* a non-empty string.
RatingQueryOverwritten(minRating, maxRating) ==
  [gte |-> IF Truthy(minRating) /\ ~Truthy(maxRating) THEN Num(parseFloat(minRating))
           ELSE Undefined,
   lte |-> IF Truthy(maxRating) THEN Num(parseFloat(maxRating)) ELSE Undefined]
RatingQuery(minRating, maxRating) ==
  [gte |-> IF Truthy(minRating) THEN Num(parseFloat(minRating)) ELSE Undefined,
   lte |-> IF Truthy(maxRating) THEN Num(parseFloat(maxRating)) ELSE Undefined]

\* The query of getAllBooks (the controller with category and rating
\* filters): each part is set when its parameter is supplied.
\*   if (genre) query.genre = genre;  if (category) query.category = category;
\*   if (inStock !== undefined) query.inStock = inStock === 'true';
BookQuery(q) ==
  [genre |-> IF Truthy(q.genre) THEN q.genre ELSE Undefined,
   category |-> IF Truthy(q.category) THEN q.category ELSE Undefined,
   inStock |-> IF q.inStock # Undefined THEN Bool(q.inStock = Str("true")) ELSE Undefined,
   rating |-> RatingQuery(q.minRating, q.maxRating)]
\* The query of getAllBooks (the first controller): genre and inStock.
BookQuery_basic(q) ==
  [genre |-> IF Truthy(q.genre) THEN q.genre ELSE Undefined,
   category |-> Undefined,
   inStock |-> IF q.inStock # Undefined THEN Bool(q.inStock = Str("true")) ELSE Undefined,
   rating |-> RatingQuery(Undefined, Undefined)]

\* Book.find(query) / Book.countDocuments(query): the ids of the matches.
\* A range operator matches numbers only.
Book_find(B, query) ==
  {b \in DOMAIN B :
     /\ (query.genre # Undefined => B[b].genre = query.genre)
     /\ (query.category # Undefined => B[b].category = query.category)
     /\ (query.inStock # Undefined => B[b].inStock = query.inStock)
     /\ (query.rating.gte # Undefined =>
           IsNum(B[b].rating) /\ B[b].rating[2] >= query.rating.gte[2])
     /\ (query.rating.lte # Undefined =>
           IsNum(B[b].rating) /\ B[b].rating[2] <= query.rating.lte[2])}

\* Author.find(query) / Author.countDocuments(query) with query.nationality
Author_find(A, nationality) ==
  {a \in DOMAIN A : Truthy(nationality) => A[a].nationality = nationality}

\* GET /api/books (the controller with category and rating filters).
\* sort({ createdAt: -1 }): ObjectIds grow with creation time.
getAllBooks(q) ==
  LET page == Default(q.page, DefaultPage)
      limit == Default(q.limit, DefaultLimit)
      query == BookQuery(q)
      found == Descending(Book_find(books, query))
      count == Cardinality(Book_find(books, query))
  IN ListRes(Window(found, (ToNumber(page) - 1) * ToNumber(limit), ToNumber(limit)),
             Num(CeilDiv(count, ToNumber(limit))), parseInt(page), Num(count))

\* GET /api/books (the first controller): Book.find({query}) filters on a path
\* named "query", which the schema does not have. With strictQuery the path
\* is dropped and every book matches; without it no book has that field.
\* Book.countDocuments(query) counts with the query itself.
getAllBooks_basic(q, strictQuery) ==
  LET page == Default(q.page, DefaultPage)
      limit == Default(q.limit, DefaultLimit)
      query == BookQuery_basic(q)
      found == Descending(IF strictQuery THEN DOMAIN books ELSE {})
      count == Cardinality(Book_find(books, query))
  IN ListRes(Window(found, (ToNumber(page) - 1) * ToNumber(limit), ToNumber(limit)),
             Num(CeilDiv(count, ToNumber(limit))), page, Num(count))

\* sort({ name: 1 }) with skip and limit. No index covers name and every
\* stored name is the same string, so the sort decides nothing: the order
\* among equal names is the store's, and the store may return documents of
\* equal sort key in a different order for each query (ties: by ascending
\* or by descending id).
TieOrders == {"ascending", "descending"}
Author_sortByName(S, ties) == IF ties = "ascending" THEN Ascending(S) ELSE Descending(S)

\* GET /api/authors (the controller with sortBy and order), default sort:
\* name ascending.
getAllAuthors(q, ties) ==
  LET page == Default(q.page, DefaultPage)
      limit == Default(q.limit, DefaultLimit)
      found == Author_sortByName(Author_find(authors, q.nationality), ties)
      count == Cardinality(Author_find(authors, q.nationality))
  IN ListRes(Window(found, (ToNumber(page) - 1) * ToNumber(limit), ToNumber(limit)),
             Num(CeilDiv(count, ToNumber(limit))), parseInt(page), Num(count))

\* GET /api/authors (the first controller)
getAllAuthors_basic(q, ties) ==
  LET page == Default(q.page, DefaultPage)
      limit == Default(q.limit, DefaultLimit)
      found == Author_sortByName(Author_find(authors, q.nationality), ties)
      count == Cardinality(Author_find(authors, q.nationality))
  IN ListRes(Window(found, (ToNumber(page) - 1) * ToNumber(limit), ToNumber(limit)),
             Num(CeilDiv(count, ToNumber(limit))), page, Num(count))

\* GET /api/authors/nationality/:nationality
getAuthorsByNationality(nationality, q, ties) ==
  LET page == Default(q.page, DefaultPage)
      limit == Default(q.limit, DefaultLimit)
      matches == {a \in DOMAIN authors : authors[a].nationality = nationality}
  IN ListRes(Window(Author_sortByName(matches, ties), (ToNumber(page) - 1) * ToNumber(limit),
                    ToNumber(limit)),
             Num(CeilDiv(Cardinality(matches), ToNumber(limit))), parseInt(page),
             Num(Cardinality(matches)))

\* query-string values
PageValues == {Undefined} \cup {Numeral(n) : n \in 1..MaxPage}
LimitValues == {Undefined} \cup {Numeral(n) : n \in 1..MaxLimit}
RatingBoundValues == {Undefined, Numeral(0), Numeral(5)}
PageQueries == [page : PageValues, limit : LimitValues]
BookQueries == [page : PageValues, limit : LimitValues,
                genre : {Undefined}, category : {Undefined}, inStock : {Undefined},
                minRating : RatingBoundValues, maxRating : RatingBoundValues]
BasicBookQueries == [page : PageValues, limit : LimitValues,
                     genre : {Undefined}, inStock : {Undefined}]
AuthorQueries == [page : PageValues, limit : LimitValues,
                  nationality : NationalityValues]

\* ----------------------------------------- requests handled one at a time
\* resp keeps the envelope without its data, with the handler that sent it
\* and the author the request named (book requests) or Undefined.
Resp(op, named, res) ==
  [op |-> op, named |-> named, status |-> res.status, success |-> res.success,
   message |-> res.message]

vars == <<authors, books, lastAuthorId, lastBookId, resp, proc, begun, natural>>

\* A request runs to completion: the store it leaves, the ObjectId it used
\* (create handlers take the next one when they insert), its response.
Handle(op, named, r) ==
  LET newBook == (lastBookId + 1) \in DOMAIN r.books
      newAuthor == (lastAuthorId + 1) \in DOMAIN r.authors
  IN /\ (newBook => lastBookId < MaxBooks)
     /\ (newAuthor => lastAuthorId < MaxAuthors)
     /\ authors' = r.authors
     /\ books' = r.books
     /\ lastBookId' = IF newBook THEN lastBookId + 1 ELSE lastBookId
     /\ lastAuthorId' = IF newAuthor THEN lastAuthorId + 1 ELSE lastAuthorId
     /\ resp' = Resp(op, named, r.res)
     /\ natural' = Ascending(DOMAIN r.books)
     /\ UNCHANGED <<proc, begun>>

Read(op, res) == Handle(op, Undefined, Out(authors, books, res))

CreateBook == \E body \in BookBodies : Handle("createBook", body.author, createBook(body))
UpdateBook ==
  \E id \in BookIds, body \in BookUpdates : Handle("updateBook", body.author, updateBook(id, body))
DeleteBook == \E id \in BookIds : Handle("deleteBook", Undefined, deleteBook(id))
\* (the values that take a Book out of stock are requests of SpecStock)
UpdateBookStock ==
  \E id \in BookIds, inStock \in {Undefined, Bool(TRUE), Str("maybe")} :
    Handle("updateBookStock", Undefined, updateBookStock(id, inStock))
UpdateBookRating ==
  \E id \in BookIds, rating \in RatingValues :
    Handle("updateBookRating", Undefined, updateBookRating(id, rating))
CreateAuthor == \E body \in AuthorBodies : Handle("createAuthor", Undefined, createAuthor(body))
CreateNationalAuthor ==
  \E body \in NationalAuthorBodies : Handle("createAuthor", Undefined, createAuthor(body))
UpdateAuthor ==
  \E id \in AuthorIds, body \in AuthorBodies : Handle("updateAuthor", Oid(id), updateAuthor(id, body))
DeleteAuthor == \E id \in AuthorIds : Handle("deleteAuthor", Oid(id), deleteAuthor(id))
GetAuthorById == \E id \in AuthorIds : Read("getAuthorById", getAuthorById(id))
GetAuthorStats == \E id \in AuthorIds : Read("getAuthorStats", getAuthorStats(id))

GetAllBooks == \E q \in BookQueries : Read("getAllBooks", getAllBooks(q))
GetAllBooksBasic ==
  \E q \in BasicBookQueries, strictQuery \in BOOLEAN :
    Read("getAllBooks_basic", getAllBooks_basic(q, strictQuery))
GetAllAuthors ==
  \E q \in AuthorQueries, ties \in TieOrders : Read("getAllAuthors", getAllAuthors(q, ties))
GetAllAuthorsBasic ==
  \E q \in AuthorQueries, ties \in TieOrders :
    Read("getAllAuthors_basic", getAllAuthors_basic(q, ties))
GetAuthorsByNationality ==
  \E nationality \in {Str("British"), Str("French")}, q \in PageQueries, ties \in TieOrders :
    Read("getAuthorsByNationality", getAuthorsByNationality(nationality, q, ties))

Init ==
  /\ authors = << >>
  /\ books = << >>
  /\ lastAuthorId = 0
  /\ lastBookId = 0
  /\ resp = Resp("none", Undefined, Res(0, TRUE, NoMessage, Undefined))
  /\ proc = << >>
  /\ begun = 0
  /\ natural = << >>

Next ==
  \/ CreateBook
  \/ UpdateBook
  \/ DeleteBook
  \/ UpdateBookStock
  \/ UpdateBookRating
  \/ CreateAuthor
  \/ UpdateAuthor
  \/ DeleteAuthor
  \/ GetAuthorById
  \/ GetAuthorStats

Spec == Init /\ [][Next]_vars

\* The list endpoints over the stores that creating and deleting builds.
NextList ==
  \/ CreateBook
  \/ CreateAuthor
  \/ CreateNationalAuthor
  \/ GetAllBooks
  \/ GetAllBooksBasic
  \/ GetAllAuthors
  \/ GetAllAuthorsBasic
  \/ GetAuthorsByNationality

SpecList == Init /\ [][NextList]_vars

\* ------------------------------------------- interleaved store calls
\* Each await of a handler is one step; between the steps of one request the
\* steps of another may run. A process is a request in flight: its position
\* (the store call it awaits), the id and body of the request, and the
\* response it sent last.
MaxRequests == 4
Procs == {1, 2}
NoBody == [author |-> Undefined, isbn |-> Undefined, rating |-> Undefined,
           category |-> Undefined, inStock |-> Undefined]
ConcIsbnValues == {Undefined, IsbnStr(0, 10, 1), IsbnStr(0, 13, 2)}
ConcBookBodies ==
  [author : {Oid(a) : a \in AuthorIds}, isbn : ConcIsbnValues,
   rating : {Undefined}, category : {Undefined}, inStock : {Undefined}]
ConcBookUpdates ==
  [author : {Undefined} \cup {Oid(a) : a \in AuthorIds}, isbn : ConcIsbnValues,
   rating : {Undefined}, category : {Undefined}, inStock : {Undefined}]
ConcAuthorBody == [name |-> Str("Ann"), email |-> Undefined, nationality |-> Undefined]

At(p, pc, id, body) ==
  [proc EXCEPT ![p] = [pc |-> pc, id |-> id, body |-> body, done |-> proc[p].done]]
Done(p, op, named, status) ==
  [proc EXCEPT ![p] = [pc |-> "idle", id |-> 0, body |-> NoBody,
                       done |-> <<op, named, status>>]]
Begin(p) ==
  /\ proc[p].pc = "idle"
  /\ begun < MaxRequests
  /\ begun' = begun + 1

\* createBook: await Author.findById(req.body.author)
createBook_findAuthor(p) ==
  \E body \in ConcBookBodies :
    /\ Begin(p)
    /\ proc' = IF Author_findById(authors, body.author) = Null
               THEN Done(p, "createBook", body.author, 404)
               ELSE At(p, "Book.create", 0, body)
    /\ UNCHANGED <<authors, books, lastAuthorId, lastBookId, resp, natural>>

\* the status createBook answers after Book.create
createBook_status(r) == IF r.error = "" THEN 201 ELSE 400

\* createBook: await Book.create(req.body)
createBook_create(p) ==
  /\ proc[p].pc = "Book.create"
  /\ LET r == Book_create(books, lastBookId + 1, proc[p].body) IN
     /\ r.error = "" => lastBookId < MaxBooks
     /\ books' = r.books
     /\ lastBookId' = IF r.error = "" THEN lastBookId + 1 ELSE lastBookId
     /\ proc' = Done(p, "createBook", proc[p].body.author, createBook_status(r))
     /\ natural' = Ascending(DOMAIN r.books)
  /\ UNCHANGED <<authors, lastAuthorId, resp, begun>>

\* updateBook: if (req.body.author) await Author.findById(req.body.author)
updateBook_findAuthor(p) ==
  \E id \in BookIds, body \in ConcBookUpdates :
    /\ Begin(p)
    /\ proc' = IF Truthy(body.author) /\ Author_findById(authors, body.author) = Null
               THEN Done(p, "updateBook", body.author, 404)
               ELSE At(p, "Book.findByIdAndUpdate", id, body)
    /\ UNCHANGED <<authors, books, lastAuthorId, lastBookId, resp, natural>>

\* the status updateBook answers after Book.findByIdAndUpdate
updateBook_status(r) ==
  IF r.error # "" THEN 400 ELSE IF r.doc = Null THEN 404 ELSE 200

\* updateBook: await Book.findByIdAndUpdate(req.params.id, req.body, ...)
updateBook_update(p) ==
  /\ proc[p].pc = "Book.findByIdAndUpdate"
  /\ LET r == Book_findByIdAndUpdate(books, proc[p].id, proc[p].body) IN
     /\ books' = r.books
     /\ proc' = Done(p, "updateBook", proc[p].body.author, updateBook_status(r))
  /\ UNCHANGED <<authors, lastAuthorId, lastBookId, resp, natural, begun>>

\* deleteAuthor: await Author.findById(req.params.id)
deleteAuthor_find(p) ==
  \E id \in AuthorIds :
    /\ Begin(p)
    /\ proc' = IF Author_findById(authors, Oid(id)) = Null
               THEN Done(p, "deleteAuthor", Oid(id), 404)
               ELSE At(p, "Book.countDocuments", id, NoBody)
    /\ UNCHANGED <<authors, books, lastAuthorId, lastBookId, resp, natural>>

\* deleteAuthor: await Book.countDocuments({ author: req.params.id })
deleteAuthor_count(p) ==
  /\ proc[p].pc = "Book.countDocuments"
  /\ proc' = IF DeleteRefused(Book_countDocumentsByAuthor(books, proc[p].id))
             THEN Done(p, "deleteAuthor", Oid(proc[p].id), 400)
             ELSE At(p, "Author.findByIdAndDelete", proc[p].id, NoBody)
  /\ UNCHANGED <<authors, books, lastAuthorId, lastBookId, resp, natural, begun>>

\* deleteAuthor: await Author.findByIdAndDelete(req.params.id), then 200
deleteAuthor_delete(p) ==
  /\ proc[p].pc = "Author.findByIdAndDelete"
  /\ authors' = Drop(authors, proc[p].id)
  /\ proc' = Done(p, "deleteAuthor", Oid(proc[p].id), 200)
  /\ UNCHANGED <<books, lastAuthorId, lastBookId, resp, natural, begun>>

\* createAuthor: await Author.create(req.body)
createAuthor_create(p) ==
  /\ Begin(p)
  /\ lastAuthorId < MaxAuthors
  /\ LET r == createAuthor(ConcAuthorBody) IN
     /\ authors' = r.authors
     /\ proc' = Done(p, "createAuthor", Undefined, r.res.status)
  /\ lastAuthorId' = lastAuthorId + 1
  /\ UNCHANGED <<books, lastBookId, resp, natural>>

InitConc ==
  /\ authors = << >>
  /\ books = << >>
  /\ lastAuthorId = 0
  /\ lastBookId = 0
  /\ resp = Resp("none", Undefined, Res(0, TRUE, NoMessage, Undefined))
  /\ proc = [p \in Procs |-> [pc |-> "idle", id |-> 0, body |-> NoBody,
                              done |-> <<"none", Undefined, 0>>]]
  /\ begun = 0
  /\ natural = << >>

NextConc ==
  \E p \in Procs :
    \/ createAuthor_create(p)
    \/ createBook_findAuthor(p)
    \/ createBook_create(p)
    \/ updateBook_findAuthor(p)
    \/ updateBook_update(p)
    \/ deleteAuthor_find(p)
    \/ deleteAuthor_count(p)
    \/ deleteAuthor_delete(p)

SpecConc == InitConc /\ [][NextConc]_vars

\* ------------------------------------------ the read views over a store
\* The views are functions of the store, so they are run on stores drawn
\* from a family: up to MaxViewBooks books whose ratings, categories, genres
\* and authors follow patterns, the third author stored or deleted, and the
\* store returning its books oldest first or newest first.
MaxViewBooks == 13
MaxFilters == 2
ViewAuthorIds == 1..3
ViewSizes == {0, 1, 2, 3, 6, 11, MaxViewBooks}
\* the ratings of books 1, 2, ... repeat a cycle
RatingPatterns ==
  {<<Num(5)>>, <<Num(0)>>, <<Num(0), Num(3), Num(5), Num(4), Num(3)>>,
   <<Num(0), Num(1), Num(2), Num(3), Num(4), Num(5), Null>>,
   <<Num(4), Num(0), Num(4), Null, Num(2)>>}
RatingAt(pattern, i) == pattern[1 + (i % Len(pattern))]
\* the k-th title in alphabetical order
TitleStr(k) == <<"title", k>>
\* every fourth book, the first included, is without a publishedDate;
\* <<m, g>>: every m-th book is without a category, of the others every
\* fifth is in category 3 and the rest in category 1; every g-th book is a
\* Horror book and the others are Fantasy books
StorePatterns == {<<3, 2>>, <<MaxViewBooks + 1, MaxViewBooks>>}
ViewBook(i, pattern, m, g) ==
  [author |-> Oid(1 + (i % 3)),
   isbn |-> IsbnStr(0, 10, i),
   title |-> TitleStr((5 * i) % (MaxViewBooks + 1)),
   rating |-> RatingAt(pattern, i),
   category |-> IF i % m = 0 THEN Undefined ELSE IF i % 5 = 0 THEN Oid(3) ELSE Oid(1),
   genre |-> IF i % g = 0 THEN Str("Horror") ELSE Str("Fantasy"),
   inStock |-> Bool(i % 4 # 0),
   publishedDate |-> IF i % 4 = 1 THEN Undefined ELSE Num((3 * i) % 7)]
ViewAuthor(a) ==
  [name |-> Str("Ann"), nationality |-> IF a = 1 THEN Str("British") ELSE Undefined]

\* query-string values of the views
ViewPageValues == {Undefined, Numeral(1), Numeral(2)}
ViewLimitValues == {Undefined, Numeral(5)}
ViewBookQueries ==
  {q \in [page : ViewPageValues, limit : ViewLimitValues,
          genre : {Undefined, Str("Fantasy")}, category : {Undefined, Oid(1)},
          inStock : {Undefined, Str("true"), Str("false"), Str("yes")},
          minRating : {Undefined, Numeral(0), Numeral(3)},
          maxRating : {Undefined, Numeral(4)}] :
     SetFields(q, {"genre", "category", "inStock", "minRating", "maxRating"}) <= MaxFilters}
ViewBasicBookQueries ==
  [page : ViewPageValues, limit : ViewLimitValues,
   genre : {Undefined, Str("Fantasy")}, inStock : {Undefined, Str("true"), Str("false")}]

\* A view answers: resp keeps the envelope with the number of entries of its
\* data in place of the data.
ViewResp(op, res, count) ==
  [op |-> op, named |-> Undefined, status |-> res.status, success |-> res.success,
   message |-> res.message, count |-> count]
AnswerAndForget(op, res, count) ==
  /\ resp' = ViewResp(op, res, count)
  /\ books' = [b \in DOMAIN books \ {lastBookId} |-> books[b]]
  /\ UNCHANGED <<authors, lastAuthorId, lastBookId, proc, begun, natural>>
Answer(op, res, count) ==
  /\ resp' = ViewResp(op, res, count)
  /\ UNCHANGED <<authors, books, lastAuthorId, lastBookId, proc, begun, natural>>
View(op, res) == Answer(op, res, Len(res.data))

\* The place of a book in the order the store returns books in.
Pos(b) == CHOOSE k \in 1..Len(natural) : natural[k] = b
\* $sort: the members of S in the order before, a strict total order on S
\* given as a function of pairs.
OrderBy(S, before) ==
  [k \in 1..Cardinality(S) |-> CHOOSE x \in S : Cardinality({y \in S : before[y, x]}) = k - 1]
\* $limit / $slice: the first n of a sequence
FirstN(seq, n) == SubSeq(seq, 1, IF n < Len(seq) THEN n ELSE Len(seq))
\* { $match: { rating: { $gt: 0 } } }
RatedOrUnrated(B) == {b \in DOMAIN B : IsNum(B[b].rating)}
Rated(B) == {b \in DOMAIN B : IsNum(B[b].rating) /\ B[b].rating[2] > 0}

\* The name of a stored Category.
Category_name(c) == IF c = 1 THEN Str("Fiction") ELSE Str("Western")
\* { $sort: { categoryName: 1 } }: a missing name sorts before every string,
\* strings sort in the order of their characters.
NameBefore(x, y) ==
  LET rank(v) == CASE v = Undefined -> 0
                   [] v = Str("Fiction") -> 1
                   [] v = Str("Uncategorized") -> 2
                   [] v = Str("Western") -> 3
  IN rank(x) < rank(y)

\* GET /api/books/top-rated-by-category
\* { $sort: { rating: -1, title: 1 } }; equal rating and title leave the
\* order to the store.
TopPerCategory == 10
ByTitleThenRating(x, y) ==
  \/ books[x].title[2] < books[y].title[2]
  \/ /\ books[x].title = books[y].title
     /\ \/ books[x].rating[2] > books[y].rating[2]
        \/ books[x].rating = books[y].rating /\ Pos(x) < Pos(y)
ByRatingThenLastTitle(x, y) ==
  \/ books[x].rating[2] > books[y].rating[2]
  \/ /\ books[x].rating[2] = books[y].rating[2]
     /\ \/ books[x].title[2] > books[y].title[2]
        \/ books[x].title = books[y].title /\ Pos(x) < Pos(y)
ByRatingThenTitle(x, y) ==
  \/ books[x].rating[2] > books[y].rating[2]
  \/ /\ books[x].rating[2] = books[y].rating[2]
     /\ \/ books[x].title[2] < books[y].title[2]
        \/ books[x].title = books[y].title /\ Pos(x) < Pos(y)
\* $group by category with $push, then $slice: ['$books', 10]
TopBooksOf(category) ==
  LET members == {b \in Rated(books) : books[b].category = category}
      pushed == OrderBy(members, [x \in members, y \in members |-> ByRatingThenTitle(x, y)])
      kept == FirstN(pushed, TopPerCategory)
  IN [k \in 1..Len(kept) |->
        [id |-> kept[k], title |-> books[kept[k]].title, rating |-> books[kept[k]].rating,
         author |-> books[kept[k]].author]]
\* $lookup and $unwind with preserveNullAndEmptyArrays, the final $sort by
\* categoryName (a group without a name sorts first), and the name given to
\* the group whose categoryId is null.
getTopRatedBooksByCategory ==
  LET keys == {books[b].category : b \in Rated(books)}
      categoryName(key) == IF key # Undefined /\ key[2] \in categories
                           THEN Category_name(key[2]) ELSE Undefined
      sorted == OrderBy(keys, [x \in keys, y \in keys |->
                                 NameBefore(categoryName(x), categoryName(y))])
      data == [k \in 1..Len(sorted) |->
                 [categoryId |-> IF sorted[k] = Undefined THEN Null ELSE sorted[k],
                  categoryName |-> IF sorted[k] = Undefined THEN Str("Uncategorized")
                                   ELSE categoryName(sorted[k]),
                  books |-> TopBooksOf(sorted[k])]]
  IN [status |-> 200, success |-> TRUE, message |-> NoMessage, data |-> data,
      count |-> Len(data)]

\* GET /api/books/stats/overview: the counts and topRatedBooks of the $facet
\* (averageRating and the counts by genre and by category are left out).
\* topRatedBooks: $match rating > 0, { $sort: { rating: -1 } }, { $limit: 5 };
\* equal ratings leave the order to the store.
TopRatedLimit == 5
ByRating(x, y) ==
  \/ books[x].rating[2] > books[y].rating[2]
  \/ books[x].rating = books[y].rating /\ Pos(x) < Pos(y)
getBookStatistics ==
  LET rated == Rated(books)
      top == FirstN(OrderBy(rated, [x \in rated, y \in rated |-> ByRating(x, y)]), TopRatedLimit) IN
  [status |-> 200, success |-> TRUE, message |-> NoMessage,
   data |-> [totalBooks |-> Cardinality(DOMAIN books),
             inStockBooks |-> Cardinality({b \in DOMAIN books : books[b].inStock = Bool(TRUE)}),
             outOfStockBooks |->
               Cardinality({b \in DOMAIN books : books[b].inStock = Bool(FALSE)}),
             topRatedBooks |->
               [k \in 1..Len(top) |->
                  [id |-> top[k], title |-> books[top[k]].title,
                   rating |-> books[top[k]].rating, author |-> books[top[k]].author]]]]

\* $avg of the ratings that are numbers, then $round to 2 places (half to
\* even), in hundredths; null when no rating is a number.
RECURSIVE SumOfRatings(_)
SumOfRatings(S) ==
  IF S = {} THEN 0
  ELSE LET b == CHOOSE x \in S : TRUE IN books[b].rating[2] + SumOfRatings(S \ {b})
RoundedAverage(S) ==
  LET nums == {b \in S : IsNum(books[b].rating)}
      n == Cardinality(nums)
      q == (100 * SumOfRatings(nums)) \div n
      r == (100 * SumOfRatings(nums)) % n
  IN IF n = 0 THEN Null
     ELSE IF 2 * r < n \/ (2 * r = n /\ q % 2 = 0) THEN Num(q) ELSE Num(q + 1)

\* The place where the store first returns a book of a group.
FirstPos(S) == CHOOSE k \in 1..Len(natural) : natural[k] \in S /\ \A j \in 1..(k - 1) : natural[j] \notin S
\* { $group: { _id: '$author', ... } } over a set of books
BooksOf(S, author) == {b \in S : books[b].author = author}
\* $lookup from authors and { $unwind: '$authorInfo' }: a group whose author
\* is not stored is dropped
Unwind(seq) == SelectSeq(seq, LAMBDA author : author[2] \in DOMAIN authors)

\* GET /api/authors/top-by-books
\* { $sort: { bookCount: -1 } }; equal counts leave the order to the store.
getTopAuthorsByBookCount(q) ==
  LET limit == Default(q.limit, DefaultLimit)
      all == DOMAIN books
      keys == {books[b].author : b \in all}
      ByBookCount(x, y) ==
        \/ Cardinality(BooksOf(all, x)) > Cardinality(BooksOf(all, y))
        \/ /\ Cardinality(BooksOf(all, x)) = Cardinality(BooksOf(all, y))
           /\ FirstPos(BooksOf(all, x)) < FirstPos(BooksOf(all, y))
      sorted == OrderBy(keys, [x \in keys, y \in keys |-> ByBookCount(x, y)])
      top == Unwind(FirstN(sorted, parseInt(limit)[2]))
      data == [k \in 1..Len(top) |->
                 [id |-> top[k][2],
                  name |-> authors[top[k][2]].name,
                  nationality |-> authors[top[k][2]].nationality,
                  bookCount |-> Cardinality(BooksOf(all, top[k])),
                  averageRating |-> RoundedAverage(BooksOf(all, top[k]))]]
  IN [status |-> 200, success |-> TRUE, message |-> NoMessage, data |-> data,
      count |-> Len(data)]

\* limit and minBooks of the author views
TopLimitValues == {Undefined, Numeral(1), Numeral(2)}

\* GET /api/authors/top-by-rating
DefaultMinBooks == 1
RECURSIVE MaxOfRatings(_)
MaxOfRatings(S) ==
  LET b == CHOOSE x \in S : TRUE
  IN IF S = {b} THEN books[b].rating[2]
     ELSE LET rest == MaxOfRatings(S \ {b})
          IN IF books[b].rating[2] > rest THEN books[b].rating[2] ELSE rest
\* averageRating of group x is greater than that of group y: the averages
\* are sums over counts, compared without dividing
AverageAbove(S, x, y) ==
  SumOfRatings(BooksOf(S, x)) * Cardinality(BooksOf(S, y))
    > SumOfRatings(BooksOf(S, y)) * Cardinality(BooksOf(S, x))
ByCountThenAverage(S, x, y) ==
  \/ Cardinality(BooksOf(S, x)) > Cardinality(BooksOf(S, y))
  \/ /\ Cardinality(BooksOf(S, x)) = Cardinality(BooksOf(S, y))
     /\ \/ AverageAbove(S, x, y)
        \/ /\ ~AverageAbove(S, y, x)
           /\ FirstPos(BooksOf(S, x)) < FirstPos(BooksOf(S, y))
\* { $sort: { averageRating: -1, bookCount: -1 } }; what is equal in both
\* is left to the store.
ByAverageThenCount(S, x, y) ==
  \/ AverageAbove(S, x, y)
  \/ /\ ~AverageAbove(S, y, x)
     /\ \/ Cardinality(BooksOf(S, x)) > Cardinality(BooksOf(S, y))
        \/ /\ Cardinality(BooksOf(S, x)) = Cardinality(BooksOf(S, y))
           /\ FirstPos(BooksOf(S, x)) < FirstPos(BooksOf(S, y))
getTopAuthorsByRating(q) ==
  LET limit == Default(q.limit, DefaultLimit)
      minBooks == Default(q.minBooks, DefaultMinBooks)
      rated == Rated(books)
      keys == {books[b].author : b \in rated}
      kept == {k \in keys : Cardinality(BooksOf(rated, k)) >= parseInt(minBooks)[2]}
      sorted == OrderBy(kept, [x \in kept, y \in kept |-> ByAverageThenCount(rated, x, y)])
      top == Unwind(FirstN(sorted, parseInt(limit)[2]))
      data == [k \in 1..Len(top) |->
                 [id |-> top[k][2],
                  name |-> authors[top[k][2]].name,
                  nationality |-> authors[top[k][2]].nationality,
                  bookCount |-> Cardinality(BooksOf(rated, top[k])),
                  averageRating |-> RoundedAverage(BooksOf(rated, top[k])),
                  highestRating |-> Num(MaxOfRatings(BooksOf(rated, top[k])))]]
  IN [status |-> 200, success |-> TRUE, message |-> NoMessage, data |-> data,
      count |-> Len(data)]

\* GET /api/books/:id, with populate('author'): null when the author is
\* not stored
getBookById(id) ==
  IF id \notin DOMAIN books
  THEN Res(404, FALSE, Msg("Book not found"), Undefined)
  ELSE Res(200, TRUE, NoMessage,
           [book |-> books[id],
            author |-> IF Author_findById(authors, books[id].author) = Null THEN Null
                       ELSE authors[books[id].author[2]]])

\* GET /api/books/author/:authorId: Book.find without a sort, in the order of
\* the store
getBooksByAuthor(authorId) ==
  LET found == SelectSeq(natural, LAMBDA b : books[b].author = Oid(authorId))
  IN [status |-> 200, success |-> TRUE, message |-> NoMessage, data |-> found,
      count |-> Len(found)]

\* GET /api/books/category/:categoryId, sorted by createdAt (the default
\* sortBy), descending unless order is 'asc'
getBooksByCategory(categoryId, q) ==
  LET page == Default(q.page, DefaultPage)
      limit == Default(q.limit, DefaultLimit)
      matches == {b \in DOMAIN books : books[b].category = Oid(categoryId)}
      found == IF q.order = Str("asc") THEN Ascending(matches) ELSE Descending(matches)
  IN ListRes(Window(found, (ToNumber(page) - 1) * ToNumber(limit), ToNumber(limit)),
             Num(CeilDiv(Cardinality(matches), ToNumber(limit))), parseInt(page),
             Num(Cardinality(matches)))

\* { $regex: query, $options: 'i' } for a pattern that is a whole name in
\* some letter case: the texts agree once in lower case
ToLowerCase(v) == IF v = Str("Ann") THEN Str("ann") ELSE v
RegexIgnoreCase(text, pattern) == text[1] = "string" /\ ToLowerCase(text) = ToLowerCase(pattern)
\* GET /api/authors/search: sort({ name: 1 }) and limit
searchAuthors(q, ties) ==
  IF ~Truthy(q.query)
  THEN Res(400, FALSE, Msg("Search query is required"), << >>)
  ELSE LET limit == Default(q.limit, DefaultLimit)
           matches == {a \in Author_find(authors, q.nationality) :
                         RegexIgnoreCase(authors[a].name, q.query)}
           found == FirstN(Author_sortByName(matches, ties), parseInt(limit)[2])
       IN [status |-> 200, success |-> TRUE, message |-> NoMessage, data |-> found,
           count |-> Len(found)]

\* GET /api/authors/nationalities: Author.distinct('nationality'),
\* filter(Boolean), sort()
StringBefore(x, y) == x = Str("British") /\ y = Str("French")
getAllNationalities ==
  LET distinct == {authors[a].nationality : a \in DOMAIN authors}
      named == {v \in distinct : Truthy(v)}
      data == OrderBy(named, [x \in named, y \in named |-> StringBefore(x, y)])
  IN [status |-> 200, success |-> TRUE, message |-> NoMessage, data |-> data,
      count |-> Len(data)]

InitViews ==
  \E n \in ViewSizes, pattern \in RatingPatterns, mg \in StorePatterns,
     stored \in {ViewAuthorIds, ViewAuthorIds \ {3}} :
    /\ authors = [a \in stored |-> ViewAuthor(a)]
    /\ books = [i \in 1..n |-> ViewBook(i, pattern, mg[1], mg[2])]
    /\ lastAuthorId = 3
    /\ lastBookId = n
    /\ resp = Resp("none", Undefined, Res(0, TRUE, NoMessage, Undefined))
    /\ proc = << >>
    /\ begun = 0
    /\ natural \in {Ascending(1..n), Descending(1..n)}

\* One step: a read endpoint answers a request.
NextViews ==
  \/ \E q \in ViewBookQueries : View("getAllBooks", getAllBooks(q))
  \/ \E q \in ViewBasicBookQueries, strictQuery \in BOOLEAN :
       View("getAllBooks_basic", getAllBooks_basic(q, strictQuery))
  \/ View("getTopRatedBooksByCategory", getTopRatedBooksByCategory)
  \/ Answer("getBookStatistics", getBookStatistics,
            Len(getBookStatistics.data.topRatedBooks))
  \/ \E limit \in TopLimitValues :
       View("getTopAuthorsByBookCount", getTopAuthorsByBookCount([limit |-> limit]))
  \/ \E limit \in TopLimitValues, minBooks \in TopLimitValues :
       View("getTopAuthorsByRating",
            getTopAuthorsByRating([limit |-> limit, minBooks |-> minBooks]))
  \/ \E id \in {1, MaxViewBooks, MaxViewBooks + 1} :
       Answer("getBookById", getBookById(id), IF id \in DOMAIN books THEN 1 ELSE 0)
  \/ \E authorId \in ViewAuthorIds :
       View("getBooksByAuthor", getBooksByAuthor(authorId))
  \/ \E categoryId \in CategoryIds, page \in ViewPageValues, limit \in ViewLimitValues,
        order \in {Undefined, Str("asc")} :
       View("getBooksByCategory",
            getBooksByCategory(categoryId, [page |-> page, limit |-> limit, order |-> order]))
  \/ \E page \in ViewPageValues, limit \in TopLimitValues, nationality \in NationalityValues,
        ties \in TieOrders :
       View("getAllAuthors",
            getAllAuthors([page |-> page, limit |-> limit, nationality |-> nationality], ties))
  \/ \E id \in ViewAuthorIds :
       Answer("getAuthorById", getAuthorById(id),
              IF id \in DOMAIN authors THEN Cardinality(getAuthorById(id).data.books) ELSE 0)
  \/ \E id \in ViewAuthorIds :
       Answer("getAuthorStats", getAuthorStats(id),
              IF id \in DOMAIN authors THEN getAuthorStats(id).data.totalBooks ELSE 0)
  \/ \E nationality \in {Str("British"), Str("French")}, page \in ViewPageValues,
        limit \in TopLimitValues, ties \in TieOrders :
       View("getAuthorsByNationality",
            getAuthorsByNationality(nationality, [page |-> page, limit |-> limit], ties))
  \/ \E query \in {Undefined, Str("ann"), Str("Bob")}, nationality \in NationalityValues,
        limit \in TopLimitValues, ties \in TieOrders :
       View("searchAuthors",
            searchAuthors([query |-> query, nationality |-> nationality, limit |-> limit],
                          ties))
  \/ View("getAllNationalities", getAllNationalities)

SpecViews == InitViews /\ [][NextViews]_vars

\* ------------------------------------------------------------- routing
\* A router is the list of its routes in the order they were registered; a
\* path is the list of its segments, and <<":", name>> in a route's path is
\* the parameter :name, which matches any one segment.
authorsRouter_idFirst ==
  LET route(method, path, handler) == [method |-> method, path |-> path, handler |-> handler]
  IN << route("GET", << >>, "getAllAuthors"),
        route("GET", << <<":", "id">> >>, "getAuthorById"),
        route("GET", <<Str("search")>>, "searchAuthors"),
        route("GET", <<Str("top-by-books")>>, "getTopAuthorsByBookCount"),
        route("GET", <<Str("top-by-rating")>>, "getTopAuthorsByRating"),
        route("GET", <<Str("nationalities")>>, "getAllNationalities"),
        route("GET", <<Str("nationality"), <<":", "nationality">> >>, "getAuthorsByNationality"),
        route("GET", << <<":", "id">>, Str("stats")>>, "getAuthorStats"),
        route("POST", << >>, "createAuthor"),
        route("PUT", << <<":", "id">> >>, "updateAuthor"),
        route("DELETE", << <<":", "id">> >>, "deleteAuthor") >>
authorsRouter ==
  LET route(method, path, handler) == [method |-> method, path |-> path, handler |-> handler]
  IN << route("GET", << >>, "getAllAuthors"),
        route("GET", <<Str("search")>>, "searchAuthors"),
        route("GET", <<Str("top-by-books")>>, "getTopAuthorsByBookCount"),
        route("GET", <<Str("top-by-rating")>>, "getTopAuthorsByRating"),
        route("GET", <<Str("nationalities")>>, "getAllNationalities"),
        route("GET", <<Str("nationality"), <<":", "nationality">> >>, "getAuthorsByNationality"),
        route("GET", << <<":", "id">>, Str("stats")>>, "getAuthorStats"),
        route("GET", << <<":", "id">> >>, "getAuthorById"),
        route("POST", << >>, "createAuthor"),
        route("PUT", << <<":", "id">> >>, "updateAuthor"),
        route("DELETE", << <<":", "id">> >>, "deleteAuthor") >>
booksRouter ==
  LET route(method, path, handler) == [method |-> method, path |-> path, handler |-> handler]
  IN << route("GET", << >>, "getAllBooks"),
        route("GET", <<Str("stats"), Str("overview")>>, "getBookStatistics"),
        route("GET", <<Str("top-rated-by-category")>>, "getTopRatedBooksByCategory"),
        route("GET", <<Str("author"), <<":", "authorId">> >>, "getBooksByAuthor"),
        route("GET", <<Str("category"), <<":", "categoryId">> >>, "getBooksByCategory"),
        route("GET", << <<":", "id">> >>, "getBookById"),
        route("POST", << >>, "createBook"),
        route("PUT", << <<":", "id">> >>, "updateBook"),
        route("PATCH", << <<":", "id">>, Str("stock")>>, "updateBookStock"),
        route("PATCH", << <<":", "id">>, Str("rating")>>, "updateBookRating"),
        route("DELETE", << <<":", "id">> >>, "deleteBook") >>

\* The first route of the router that matches the method and the path, with
\* req.params; handler "none" when no route matches and the request falls
\* through the router.
Dispatch(router, method, path) ==
  LET matches(k) ==
        /\ router[k].method = method
        /\ Len(router[k].path) = Len(path)
        /\ \A i \in 1..Len(path) : router[k].path[i][1] = ":" \/ router[k].path[i] = path[i]
      hits == {k \in DOMAIN router : matches(k)}
      first == CHOOSE k \in hits : \A j \in hits : k <= j
      at(name) == CHOOSE i \in 1..Len(path) : router[first].path[i] = <<":", name>>
  IN IF hits = {} THEN [handler |-> "none", params |-> << >>]
     ELSE [handler |-> router[first].handler,
           params |-> [name \in {router[first].path[i][2] :
                                   i \in {j \in 1..Len(path) : router[first].path[j][1] = ":"}}
                         |-> path[at(name)]]]

\* Routing does not read the store: the stores of at most MaxRoutedBooks
\* books are enough for every handler to answer.
MaxRoutedBooks == 1
\* One step: a GET request without query string, to a path of up to two
\* segments under /api/authors or /api/books, is dispatched by the router
\* mounted there and answered by the handler it reaches; resp keeps the
\* path requested. A segment is a word or an ObjectId; a parameter that is
\* not an ObjectId fails the cast of the query that uses it as one, and the
\* handler's catch answers 500.
NextRoutes ==
  \E mount \in {"authors", "books"}, one \in BOOLEAN, ties \in TieOrders :
    \E path \in LET words == IF mount = "authors"
                             THEN {Str("search"), Str("top-by-books"), Str("top-by-rating"),
                                   Str("nationalities"), Str("nationality"), Str("stats"),
                                   Str("British"), Oid(1), Oid(3)}
                             ELSE {Str("stats"), Str("overview"), Str("top-rated-by-category"),
                                   Str("author"), Str("category"), Oid(1)}
                IN IF one THEN {<< >>} \cup {<<w>> : w \in words} ELSE words \X words :
      LET d == Dispatch(IF mount = "authors" THEN authorsRouter ELSE booksRouter, "GET", path)
          p == d.params
          none == [page |-> Undefined, limit |-> Undefined, nationality |-> Undefined,
                   query |-> Undefined, minBooks |-> Undefined, order |-> Undefined,
                   genre |-> Undefined, category |-> Undefined, inStock |-> Undefined,
                   minRating |-> Undefined, maxRating |-> Undefined]
          serverError == Res(500, FALSE, Msg("Server Error"), Undefined)
          byId(v, res) == IF v[1] = "ObjectId" THEN res ELSE serverError
          res == CASE d.handler = "getAllAuthors" -> getAllAuthors(none, ties)
                   [] d.handler = "searchAuthors" -> searchAuthors(none, ties)
                   [] d.handler = "getTopAuthorsByBookCount" -> getTopAuthorsByBookCount(none)
                   [] d.handler = "getTopAuthorsByRating" -> getTopAuthorsByRating(none)
                   [] d.handler = "getAllNationalities" -> getAllNationalities
                   [] d.handler = "getAuthorsByNationality" ->
                        getAuthorsByNationality(p.nationality, none, ties)
                   [] d.handler = "getAuthorStats" -> byId(p.id, getAuthorStats(p.id[2]))
                   [] d.handler = "getAuthorById" -> byId(p.id, getAuthorById(p.id[2]))
                   [] d.handler = "getAllBooks" -> getAllBooks(none)
                   [] d.handler = "getBookStatistics" -> getBookStatistics
                   [] d.handler = "getTopRatedBooksByCategory" -> getTopRatedBooksByCategory
                   [] d.handler = "getBooksByAuthor" ->
                        byId(p.authorId, getBooksByAuthor(p.authorId[2]))
                   [] d.handler = "getBooksByCategory" ->
                        byId(p.categoryId, getBooksByCategory(p.categoryId[2], none))
                   [] d.handler = "getBookById" -> byId(p.id, getBookById(p.id[2]))
                   [] d.handler = "none" -> Res(404, FALSE, NoMessage, Undefined)
      IN /\ resp' = Resp(d.handler, <<Str("api"), Str(mount)>> \o path, res)
         /\ UNCHANGED <<authors, books, lastAuthorId, lastBookId, proc, begun, natural>>

\* the view stores of at most MaxRoutedBooks books
InitRoutes == InitViews /\ lastBookId <= MaxRoutedBooks

SpecRoutes == InitRoutes /\ [][NextRoutes]_vars

\* ------------------------------------------ stock values and statistics
\* Requests that carry inStock, one at a time from the empty store, with
\* the statistics read in between.
StockValues == {Undefined, Null, Bool(TRUE), Bool(FALSE), Str("yes"), Str("maybe")}
NextStock ==
  \/ CreateNationalAuthor
  \/ \E isbn \in {IsbnStr(0, 10, 1), IsbnStr(0, 13, 2)}, inStock \in StockValues :
       Handle("createBook", Oid(1),
              createBook([NoBody EXCEPT !.author = Oid(1), !.isbn = isbn,
                                        !.inStock = inStock]))
  \/ \E id \in BookIds, inStock \in StockValues :
       Handle("updateBook", Undefined, updateBook(id, [NoBody EXCEPT !.inStock = inStock]))
  \/ \E id \in BookIds, inStock \in StockValues :
       Handle("updateBookStock", Undefined, updateBookStock(id, inStock))
  \/ DeleteBook
  \/ Read("getBookStatistics", getBookStatistics)
SpecStock == Init /\ [][NextStock]_vars

\* ================================================================ claims
StoredAuthorRefs == {Oid(a) : a \in DOMAIN authors}
StoredIsbns == {books[b].isbn : b \in DOMAIN books} \ {Undefined, Null}
ReferringBooks(a) == {b \in DOMAIN books : books[b].author = Oid(a)}
\* The rest of a book body passes: the category is absent or stored and the
\* rating passes the schema.
RestPasses(body) ==
  /\ body.category \in {Undefined} \cup {Oid(c) : c \in categories}
  /\ body.rating \in {Undefined, Null} \cup {Num(n) : n \in 0..5}

\* C1: createBook with an author id that matches no stored Author answers
\* NotFound (404, success false) and leaves the stored Books as they are,
\* whatever the rest of the body and the store.
C1_UnknownAuthorIsNotFound ==
  \A body \in BookBodies :
    (body.author[1] = "ObjectId" /\ body.author \notin StoredAuthorRefs) =>
      LET r == createBook(body) IN
      /\ r.res.status = 404
      /\ r.res.success = FALSE
      /\ r.books = books

\* C1 witness: a createBook naming an unknown author id was answered 404
\* while authors and books are stored.
C1_Witness ==
  /\ resp.op = "createBook" /\ resp.status = 404
  /\ resp.named[1] = "ObjectId" /\ resp.named \notin StoredAuthorRefs
  /\ DOMAIN authors # {} /\ DOMAIN books # {}

\* C2 as stated: createBook whose isbn is that of a stored Book, the author
\* existing, answers 400 'Book with this ISBN already exists' and changes no
\* Book; a create whose isbn no stored Book has answers 201 with that isbn.
C2_AsStated ==
  \A body \in BookBodies :
    (body.author \in StoredAuthorRefs /\ IsbnMatches(body.isbn) /\ body.isbn # Undefined) =>
      LET r == createBook(body) IN
      IF body.isbn \in StoredIsbns
      THEN /\ r.res.status = 400
           /\ r.res.message = Msg("Book with this ISBN already exists")
           /\ r.books = books
      ELSE /\ r.res.status = 201
           /\ r.res.data[2].isbn = body.isbn

\* C2 amended: the same, for bodies whose category is absent or stored and
\* whose other fields pass the schema.
C2_DuplicateIsbnConflict ==
  \A body \in BookBodies :
    (/\ body.author \in StoredAuthorRefs
     /\ IsbnMatches(body.isbn) /\ body.isbn # Undefined
     /\ RestPasses(body)) =>
      LET r == createBook(body) IN
      IF body.isbn \in StoredIsbns
      THEN /\ r.res.status = 400
           /\ r.res.success = FALSE
           /\ r.res.message = Msg("Book with this ISBN already exists")
           /\ r.books = books
      ELSE /\ r.res.status = 201
           /\ r.res.success = TRUE
           /\ r.res.data[2].isbn = body.isbn
           /\ DOMAIN r.books = DOMAIN books \cup {lastBookId + 1}

\* C2 witness: the only stored Book has an isbn and a second create was
\* refused as a duplicate of it.
C2_Witness ==
  /\ resp.op = "createBook" /\ resp.status = 400
  /\ resp.message = Msg("Book with this ISBN already exists")
  /\ Cardinality(DOMAIN books) = 1
  /\ StoredIsbns # {}

\* C3: deleteAuthor on a stored Author that n >= 1 Books reference answers
\* 400 with a message carrying n, and the Author and all Books stay stored.
C3_DeleteRefusedWithCount ==
  \A a \in DOMAIN authors :
    LET n == Cardinality(ReferringBooks(a))
        r == deleteAuthor(a)
    IN n >= 1 =>
         /\ r.res.status = 400
         /\ r.res.success = FALSE
         /\ r.res.message = CannotDelete(n)
         /\ r.authors = authors
         /\ r.books = books

\* C3 witness: a deleteAuthor was refused for an author with two books.
C3_Witness ==
  /\ resp.op = "deleteAuthor" /\ resp.status = 400
  /\ resp.message = CannotDelete(2)
  /\ resp.named \in StoredAuthorRefs
  /\ Cardinality(ReferringBooks(resp.named[2])) = 2

\* Authors that were stored once and are not stored now.
Deleted == (1..lastAuthorId) \ DOMAIN authors

\* A stored Author without Books is deleted with 200.
DeletesUnreferenced ==
  \A a \in DOMAIN authors :
    ReferringBooks(a) = {} =>
      LET r == deleteAuthor(a) IN
      /\ r.res.status = 200
      /\ r.res.success = TRUE
      /\ DOMAIN r.authors = DOMAIN authors \ {a}

\* C4 as stated: an unreferenced Author is deleted with 200, and from then on
\* getAuthorById, getAuthorStats, updateAuthor and deleteAuthor answer 404 for
\* its id.
C4_AsStated ==
  /\ DeletesUnreferenced
  /\ \A a \in Deleted :
       /\ getAuthorById(a).status = 404
       /\ getAuthorStats(a).status = 404
       /\ deleteAuthor(a).res.status = 404
       /\ \A body \in AuthorBodies : updateAuthor(a, body).res.status = 404

\* C4 amended: the same, updateAuthor answering 404 when its body passes the
\* update validators (a body that fails them is answered 400 before the
\* lookup); and a deleted Author stays deleted.
C4_DeletedStaysUnfindable ==
  /\ [](/\ DeletesUnreferenced
        /\ \A a \in Deleted :
             /\ getAuthorById(a).status = 404
             /\ getAuthorStats(a).status = 404
             /\ deleteAuthor(a).res.status = 404
             /\ \A body \in AuthorBodies :
                  body.email # EmailStr(FALSE) => updateAuthor(a, body).res.status = 404)
  /\ [][\A a \in AuthorIds : a \in Deleted => a \in Deleted']_vars

\* C4 witness: the one author ever stored had a book, the book was removed
\* by deleteBook, and the author was then deleted with 200.
C4_Witness ==
  /\ resp.op = "deleteAuthor" /\ resp.status = 200
  /\ lastAuthorId = 1 /\ DOMAIN authors = {}
  /\ lastBookId >= 1 /\ DOMAIN books = {}

\* C5: with requests handled one at a time, every stored Book's author is
\* the id of a stored Author.
C5_NoDanglingAuthor ==
  \A b \in DOMAIN books : books[b].author \in StoredAuthorRefs

\* C5 witness: after a deleteAuthor succeeded, an updateBook succeeded on a
\* store that still holds a book.
C5_Witness ==
  /\ resp.op = "updateBook" /\ resp.status = 200
  /\ resp.named \in StoredAuthorRefs
  /\ Deleted # {}
  /\ DOMAIN books # {}

\* C6: when store calls interleave, a book write whose author lookup has
\* passed is applied and answered with success although the author has been
\* deleted since (a deleteAuthor that passed its count deletes and answers
\* 200 whatever was written since); the authors such Books name are deleted
\* ones, never ids that were not stored (the lookup refuses those).
C6_WriteAfterDelete ==
  /\ [](\A b \in DOMAIN books : books[b].author \in {Oid(a) : a \in 1..lastAuthorId})
  /\ [][\A p \in Procs :
          /\ (/\ proc[p].pc = "Book.create"
              /\ proc'[p].pc = "idle"
              /\ proc[p].body.author \notin StoredAuthorRefs
              /\ ~DuplicateKey(books, lastBookId + 1, proc[p].body.isbn))
             => /\ proc'[p].done = <<"createBook", proc[p].body.author, 201>>
                /\ lastBookId + 1 \in DOMAIN books'
                /\ books'[lastBookId + 1].author = proc[p].body.author
          /\ (/\ proc[p].pc = "Author.findByIdAndDelete"
              /\ proc'[p].pc = "idle")
             => /\ proc'[p].done = <<"deleteAuthor", Oid(proc[p].id), 200>>
                /\ proc[p].id \notin DOMAIN authors'
                /\ books' = books]_vars

\* C6 witness: a createBook naming author a answered 201, a deleteAuthor of
\* a answered 200, a is not stored and a stored Book names a.
C6_Witness ==
  \E p \in Procs, q \in Procs, a \in AuthorIds :
    /\ proc[p].done = <<"createBook", Oid(a), 201>>
    /\ proc[q].done = <<"deleteAuthor", Oid(a), 200>>
    /\ a \notin DOMAIN authors
    /\ \E b \in DOMAIN books : books[b].author = Oid(a)

\* The same race with updateBook as the book write.
C6_UpdateRace ==
  \E p \in Procs, q \in Procs, a \in AuthorIds :
    /\ proc[p].done = <<"updateBook", Oid(a), 200>>
    /\ proc[q].done = <<"deleteAuthor", Oid(a), 200>>
    /\ a \notin DOMAIN authors
    /\ \E b \in DOMAIN books : books[b].author = Oid(a)

\* Books other than id that hold the isbn a body sets.
HoldersOf(id, body) ==
  {b \in DOMAIN books \ {id} : body.isbn # Undefined /\ books[b].isbn = TrimIsbn(body.isbn)}

\* C7: under any interleaving of createBook and updateBook no two stored
\* Books have the same isbn when it is set; an updateBook of a stored Book
\* that would set its isbn to that of another Book answers 400 and changes
\* no Book, whether it runs alone or its update is the pending store call of
\* a request in flight.
C7_UniqueIsbn ==
  /\ \A b1 \in DOMAIN books, b2 \in DOMAIN books :
       (b1 # b2 /\ books[b1].isbn \notin {Undefined, Null}) => books[b1].isbn # books[b2].isbn
  /\ \A id \in DOMAIN books, body \in ConcBookUpdates :
       (/\ HoldersOf(id, body) # {}
        /\ body.author \in {Undefined} \cup StoredAuthorRefs) =>
         LET r == updateBook(id, body) IN
         /\ r.res.status = 400
         /\ r.books = books
  /\ \A p \in Procs :
       (/\ proc[p].pc = "Book.findByIdAndUpdate"
        /\ proc[p].id \in DOMAIN books
        /\ HoldersOf(proc[p].id, proc[p].body) # {}) =>
         LET r == Book_findByIdAndUpdate(books, proc[p].id, proc[p].body) IN
         /\ updateBook_status(r) = 400
         /\ r.books = books

\* C7 witness: two Books with different isbns are stored and an updateBook
\* that set an isbn was answered 400.
C7_Witness ==
  \E p \in Procs :
    /\ proc[p].done[1] = "updateBook" /\ proc[p].done[3] = 400
    /\ Cardinality(StoredIsbns) = 2

\* C8: updateBookRating with a rating outside [0,5], or without a rating,
\* answers 400 and leaves every Book as it is.
C8_BadRatingRejected ==
  \A id \in BookIds, rating \in RatingValues :
    (rating = Undefined \/ (IsNum(rating) /\ (rating[2] < 0 \/ rating[2] > 5))) =>
      LET r == updateBookRating(id, rating) IN
      /\ r.res.status = 400
      /\ r.res.success = FALSE
      /\ r.books = books

\* C8 witness: an updateBookRating was answered 400 on a store whose books
\* carry a rating.
C8_Witness ==
  /\ resp.op = "updateBookRating" /\ resp.status = 400
  /\ resp.message = Msg("Rating must be between 0 and 5")
  /\ \E b \in DOMAIN books : books[b].rating = Num(5)

\* C9 as stated: every stored Book has a numeric rating within [0,5].
C9_AsStated ==
  \A b \in DOMAIN books :
    /\ IsNum(books[b].rating)
    /\ books[b].rating[2] >= 0
    /\ books[b].rating[2] <= 5

\* C10 as stated: for page >= 1 and limit >= 1 given in the query string,
\* every list endpoint answers currentPage = the integer page, total = the
\* number of matching documents and totalPages = ceil(total / limit).
Paged(res, page, limit, total) ==
  /\ res.currentPage = Num(page)
  /\ res.total = Num(total)
  /\ res.totalPages = Num(CeilDiv(total, limit))

C10_AsStated ==
  \A p \in 1..MaxPage, l \in 1..MaxLimit :
    LET pq == [page |-> Numeral(p), limit |-> Numeral(l)] IN
    /\ \A q \in BookQueries :
         (q.page = pq.page /\ q.limit = pq.limit) =>
           Paged(getAllBooks(q), p, l,
                 Cardinality(Book_find(books, BookQuery(q))))
    /\ \A strictQuery \in BOOLEAN :
         Paged(getAllBooks_basic([page |-> pq.page, limit |-> pq.limit,
                                  genre |-> Undefined, inStock |-> Undefined],
                                 strictQuery),
               p, l, Cardinality(DOMAIN books))
    /\ \A q \in AuthorQueries, ties \in TieOrders :
         (q.page = pq.page /\ q.limit = pq.limit) =>
           /\ Paged(getAllAuthors(q, ties), p, l,
                    Cardinality(Author_find(authors, q.nationality)))
           /\ Paged(getAllAuthors_basic(q, ties), p, l,
                    Cardinality(Author_find(authors, q.nationality)))
    /\ \A nationality \in {Str("British"), Str("French")}, ties \in TieOrders :
         Paged(getAuthorsByNationality(nationality, pq, ties), p, l,
               Cardinality({a \in DOMAIN authors : authors[a].nationality = nationality}))

\* What the filters of a query ask of a Book, as the parameters state it.
Satisfies(doc, q) ==
  /\ (q.genre # Undefined => doc.genre = q.genre)
  /\ (q.category # Undefined => doc.category = q.category)
  /\ (q.inStock = Str("true") => doc.inStock = Bool(TRUE))
  /\ (q.inStock = Str("false") => doc.inStock = Bool(FALSE))
  /\ (q.minRating # Undefined => IsNum(doc.rating) /\ doc.rating[2] >= q.minRating[2])
  /\ (q.maxRating # Undefined => IsNum(doc.rating) /\ doc.rating[2] <= q.maxRating[2])
Satisfying(q) == {b \in DOMAIN books : Satisfies(books[b], q)}
\* The number of items of page p of n items, l to the page.
PageSize(n, p, l) ==
  IF n - (p - 1) * l <= 0 THEN 0 ELSE IF n - (p - 1) * l < l THEN n - (p - 1) * l ELSE l
\* data holds Books satisfying the filters only, total counts the Books
\* satisfying them, and data is a page of those same Books.
Filtered(res, q) ==
  /\ \A i \in 1..Len(res.data) : res.data[i] \in Satisfying(q)
  /\ res.total = Num(Cardinality(Satisfying(q)))
  /\ Len(res.data) = PageSize(Cardinality(Satisfying(q)),
                              ToNumber(Default(q.page, DefaultPage)),
                              ToNumber(Default(q.limit, DefaultLimit)))
WithoutCategoryAndRating(q) ==
  [genre |-> q.genre, category |-> Undefined, inStock |-> q.inStock,
   minRating |-> Undefined, maxRating |-> Undefined, page |-> q.page, limit |-> q.limit]

\* C11 as stated: getAllBooks returns in data only the Books that satisfy
\* every supplied filter and total counts the Books satisfying the same
\* filters, in the controller with category and rating filters and in the
\* first controller (genre and inStock); genre=Fantasy, page=2, limit=5 over
\* 12 Fantasy books among others gives 5 Fantasy books, currentPage 2 and
\* totalPages 3.
C11_AsStated ==
  /\ \A q \in ViewBookQueries : Filtered(getAllBooks(q), q)
  /\ \A q \in ViewBasicBookQueries, strictQuery \in BOOLEAN :
       Filtered(getAllBooks_basic(q, strictQuery), WithoutCategoryAndRating(q))

\* The ratings of a list of books do not increase along the list.
NonIncreasing(list) ==
  \A i \in 1..Len(list), j \in 1..Len(list) :
    i < j => list[i].rating[2] >= list[j].rating[2]

\* C12: for every store, getTopRatedBooksByCategory returns at most 10 books
\* in each category group, and within each group the ratings do not increase
\* in list order.
C12_TopTenPerCategory ==
  LET data == getTopRatedBooksByCategory.data IN
  \A g \in 1..Len(data) :
    /\ Len(data[g].books) <= 10
    /\ NonIncreasing(data[g].books)

\* C12 witness: the view answered on a store where a category has more than
\* 10 rated books of different ratings.
C12_Witness ==
  /\ resp.op = "getTopRatedBooksByCategory"
  /\ resp.count >= 1
  /\ \E c \in {Oid(1)} :
       LET members == {b \in Rated(books) : books[b].category = c} IN
       /\ Cardinality(members) > 10
       /\ Cardinality({books[b].rating : b \in members}) > 1

C14_UpdateUnknownAuthor ==
  \A id \in BookIds, body \in BookUpdates :
    (body.author[1] = "ObjectId" /\ body.author \notin StoredAuthorRefs) =>
      LET r == updateBook(id, body) IN
      /\ r.res.status = 404
      /\ r.res.success = FALSE
      /\ r.res.message = Msg("Author not found")
      /\ r.books = books
      /\ r.authors = authors

\* C14 witness: an updateBook naming a deleted author was answered 404
\* 'Author not found' while a book is stored.
C14_Witness ==
  /\ resp.op = "updateBook" /\ resp.status = 404
  /\ resp.message = Msg("Author not found")
  /\ resp.named[1] = "ObjectId" /\ resp.named[2] \in Deleted
  /\ DOMAIN books # {}

\* Categories that are stored, as references.
StoredCategoryRefs == {Oid(c) : c \in categories}

\* C15: createBook and updateBook whose body carries a category id that
\* matches no stored Category answer 404 'Category not found' and write
\* nothing; when the author named matches no stored Author either, the
\* answer is 404 'Author not found'.
C15_UnknownCategory ==
  /\ \A body \in BookBodies :
       (body.category[1] = "ObjectId" /\ body.category \notin StoredCategoryRefs) =>
         LET r == createBook(body) IN
         /\ r.res.status = 404
         /\ r.res.success = FALSE
         /\ r.res.message = IF body.author \in StoredAuthorRefs
                            THEN Msg("Category not found") ELSE Msg("Author not found")
         /\ r.books = books
  /\ \A id \in BookIds, body \in BookUpdates :
       (body.category[1] = "ObjectId" /\ body.category \notin StoredCategoryRefs) =>
         LET r == updateBook(id, body) IN
         /\ r.res.status = 404
         /\ r.res.success = FALSE
         /\ r.res.message = IF body.author[1] = "ObjectId" /\ body.author \notin StoredAuthorRefs
                            THEN Msg("Author not found") ELSE Msg("Category not found")
         /\ r.books = books

\* C15 witness: a createBook naming a stored author was answered 404
\* 'Category not found' and no book was stored.
C15_Witness ==
  /\ resp.op = "createBook" /\ resp.status = 404
  /\ resp.message = Msg("Category not found")
  /\ resp.named \in StoredAuthorRefs
  /\ lastBookId = 0

\* C17 as stated: createBook with a stored author and no isbn, the rest of
\* the body passing, answers 201 also when stored Books have no isbn.
C17_AsStated ==
  \A body \in BookBodies :
    (body.author \in StoredAuthorRefs /\ body.isbn = Undefined /\ RestPasses(body)) =>
      LET r == createBook(body) IN
      /\ r.res.status = 201
      /\ DOMAIN r.books = DOMAIN books \cup {lastBookId + 1}

\* The smaller of two numbers.
Min(a, b) == IF a < b THEN a ELSE b
\* The Books whose rating is greater than 0.
WithRating == {b \in DOMAIN books : IsNum(books[b].rating) /\ books[b].rating[2] > 0}
\* A list of entries is in non-increasing rating order and no Book left out
\* has a rating strictly higher than a Book of the list.
TopByRating(list) ==
  /\ NonIncreasing(list)
  /\ \A b \in DOMAIN books \ {list[k].id : k \in 1..Len(list)} :
       \A k \in 1..Len(list) :
         ~(IsNum(books[b].rating) /\ books[b].rating[2] > list[k].rating[2])

\* C18 as stated: topRatedBooks of getBookStatistics has exactly
\* min(5, number of stored Books) entries, in non-increasing rating order, and
\* no omitted Book has a rating strictly higher than an included one.
C18_AsStated ==
  LET top == getBookStatistics.data.topRatedBooks IN
  /\ Len(top) = Min(5, Cardinality(DOMAIN books))
  /\ TopByRating(top)

\* C18 amended: topRatedBooks has exactly min(5, number of stored Books with
\* a rating greater than 0) entries, each a stored Book with a rating greater
\* than 0 and no Book twice, in non-increasing rating order, and no omitted
\* Book has a rating strictly higher than an included one.
C18_TopFiveRated ==
  LET top == getBookStatistics.data.topRatedBooks IN
  /\ Len(top) = Min(5, Cardinality(WithRating))
  /\ \A k \in 1..Len(top) : top[k].id \in WithRating /\ top[k].rating = books[top[k].id].rating
  /\ \A i \in 1..Len(top), j \in 1..Len(top) : i # j => top[i].id # top[j].id
  /\ TopByRating(top)

\* C18 witness: the statistics were answered with 5 top rated books on a
\* store with more than 5 rated books of different ratings and an unrated one.
C18_Witness ==
  /\ resp.op = "getBookStatistics"
  /\ resp.count = 5
  /\ Cardinality(WithRating) > 5
  /\ Cardinality({books[b].rating : b \in WithRating}) > 1
  /\ DOMAIN books # WithRating

\* The authors that Books reference, and the number of Books of each.
Referenced == {books[b].author : b \in DOMAIN books}
CountOf(author) == Cardinality({b \in DOMAIN books : books[b].author = author})
\* The result for limit N lists min(N, number of referenced authors) authors
\* with their numbers of Books, the numbers not increasing, and no author
\* left out has more Books than a listed one.
TopByBookCount(data, N) ==
  /\ Len(data) = Min(N, Cardinality(Referenced))
  /\ \A i \in 1..Len(data) :
       /\ data[i].bookCount = CountOf(Oid(data[i].id))
       /\ \A j \in 1..Len(data) : i < j => data[i].bookCount >= data[j].bookCount
       /\ \A author \in Referenced \ {Oid(data[k].id) : k \in 1..Len(data)} :
            CountOf(author) <= data[i].bookCount

\* C19 as stated: getTopAuthorsByBookCount with limit N returns exactly
\* min(N, number of authors referenced by a Book) entries in non-increasing
\* bookCount order, each bookCount the number of stored Books of the author,
\* and no omitted author has more Books than an included one.
C19_AsStated ==
  \A N \in 1..2 :
    TopByBookCount(getTopAuthorsByBookCount([limit |-> Numeral(N)]).data, N)

\* The Books of an author whose rating is greater than 0, their number and
\* the sum of their ratings.
RatedOf(id) == {b \in WithRating : books[b].author = Oid(id)}
RECURSIVE RatingSum(_)
RatingSum(S) ==
  IF S = {} THEN 0
  ELSE LET b == CHOOSE x \in S : TRUE IN books[b].rating[2] + RatingSum(S \ {b})
\* x / n rounded to hundredths lies within half a hundredth of x / n
IsRounded(h, x, n) == 2 * (100 * x - h * n) <= n /\ 2 * (h * n - 100 * x) <= n
\* A result for limit N and minimum M: at most N authors, each with at least
\* M rated Books, count and average those of the rated Books alone, in
\* order of average descending and, for equal averages, count descending.
TopByAverage(data, N, M) ==
  /\ Len(data) <= N
  /\ \A i \in 1..Len(data) :
       /\ Cardinality(RatedOf(data[i].id)) >= M
       /\ data[i].bookCount = Cardinality(RatedOf(data[i].id))
       /\ IsRounded(data[i].averageRating[2], RatingSum(RatedOf(data[i].id)),
                    Cardinality(RatedOf(data[i].id)))
       /\ \A j \in 1..Len(data) : i < j =>
            LET si == RatingSum(RatedOf(data[i].id))
                ni == Cardinality(RatedOf(data[i].id))
                sj == RatingSum(RatedOf(data[j].id))
                nj == Cardinality(RatedOf(data[j].id))
            IN si * nj > sj * ni \/ (si * nj = sj * ni /\ ni >= nj)

\* C20: getTopAuthorsByRating with limit N and minBooks M returns only
\* authors with at least M Books of rating > 0, at most N of them, ordered by
\* the average over rated Books descending and for equal averages by the
\* count of rated Books descending; Books with rating 0 change neither the
\* average nor the count.
C20_TopAuthorsByRating ==
  \A N \in 1..2, M \in 1..2 :
    TopByAverage(getTopAuthorsByRating([limit |-> Numeral(N), minBooks |-> Numeral(M)]).data, N, M)
\* A result of two authors of different averages, the first with fewer
\* rated Books than the second, one of them with a Book of rating 0.
C20_Witness ==
  /\ resp.op = "getTopAuthorsByRating"
  /\ resp.count = 2
  /\ LET data == getTopAuthorsByRating([limit |-> Numeral(2), minBooks |-> Numeral(2)]).data
     IN /\ Len(data) = 2
        /\ data[1].bookCount < data[2].bookCount
        /\ data[1].averageRating # data[2].averageRating
        /\ \E b \in DOMAIN books :
             /\ books[b].rating = Num(0)
             /\ books[b].author \in {Oid(data[1].id), Oid(data[2].id)}

\* The read endpoints.
ReadEndpoints ==
  {"getAllBooks", "getAllBooks_basic", "getBookById", "getBooksByAuthor",
   "getBooksByCategory", "getBookStatistics", "getTopRatedBooksByCategory",
   "getAllAuthors", "getAuthorById", "getAuthorStats", "searchAuthors",
   "getTopAuthorsByBookCount", "getTopAuthorsByRating", "getAllNationalities",
   "getAuthorsByNationality"}
C21_AsStated ==
  LET data == getTopRatedBooksByCategory.data IN
  /\ \A g \in 1..Len(data) :
       data[g].categoryId = Null => data[g].categoryName = Str("Uncategorized")
  /\ \A g \in 1..Len(data), h \in 1..Len(data) :
       g < h => NameBefore(data[g].categoryName, data[h].categoryName)

\* The Books of a group of the view: those of its category.
InCategory(group) ==
  {b \in DOMAIN books :
     books[b].category = IF group.categoryId = Null THEN Undefined ELSE group.categoryId}
\* C22: in getTopRatedBooksByCategory every listed Book has a rating above 0
\* and is listed in the group of its own category, no Book of the category
\* left out of the group has a rating strictly higher than a listed one, and
\* listed Books of equal rating are in ascending title order.
C22_HighestRatedOfCategory ==
  LET data == getTopRatedBooksByCategory.data IN
  \A g \in 1..Len(data) :
    LET list == data[g].books
        listed == {list[k].id : k \in 1..Len(list)}
    IN /\ \A k \in 1..Len(list) :
            /\ list[k].id \in InCategory(data[g])
            /\ IsNum(books[list[k].id].rating) /\ books[list[k].id].rating[2] > 0
            /\ list[k].rating = books[list[k].id].rating
            /\ \A b \in InCategory(data[g]) \ listed :
                 IsNum(books[b].rating) => books[b].rating[2] <= list[k].rating[2]
       /\ \A k \in 1..Len(list), l \in 1..Len(list) :
            (k < l /\ list[k].rating = list[l].rating) =>
              books[list[k].id].title[2] <= books[list[l].id].title[2]
\* The view answered on a store with Books of rating 0, where a category has
\* more than 10 rated Books, so that one is left out, and Books of equal
\* rating that the store returns against the order of their titles.
C22_Witness ==
  /\ resp.op = "getTopRatedBooksByCategory"
  /\ \E b \in DOMAIN books : books[b].rating = Num(0)
  /\ \E g \in 1..Len(getTopRatedBooksByCategory.data) :
       LET group == getTopRatedBooksByCategory.data[g]
           list == group.books
       IN /\ Len(list) = TopPerCategory
          /\ \E b \in InCategory(group) \ {list[k].id : k \in 1..Len(list)} :
               IsNum(books[b].rating) /\ books[b].rating[2] > 0
          /\ \E k \in 1..Len(list), l \in 1..Len(list) :
               /\ k < l
               /\ list[k].rating = list[l].rating
               /\ Pos(list[k].id) > Pos(list[l].id)

\* C23 as stated: in every reachable store getBookStatistics reports
\* totalBooks as the number of stored Books, inStockBooks as the number with
\* inStock true, outOfStockBooks as the number with inStock false, and
\* totalBooks = inStockBooks + outOfStockBooks, whatever inStock values
\* createBook, updateBook and updateBookStock accepted before.
C23_AsStated ==
  LET data == getBookStatistics.data IN
  /\ data.totalBooks = Cardinality(DOMAIN books)
  /\ data.inStockBooks = Cardinality({b \in DOMAIN books : books[b].inStock = Bool(TRUE)})
  /\ data.outOfStockBooks = Cardinality({b \in DOMAIN books : books[b].inStock = Bool(FALSE)})
  /\ data.totalBooks = data.inStockBooks + data.outOfStockBooks

\* A query of getAllBooks with one inStock value and no other filter.
StockQuery(page, inStock) ==
  [page |-> page, limit |-> Undefined, genre |-> Undefined, category |-> Undefined,
   inStock |-> inStock, minRating |-> Undefined, maxRating |-> Undefined]
\* C24 as stated: getAllBooks restricts to in-stock Books for inStock
\* 'true' and to out-of-stock Books for 'false', and any other supplied value
\* applies no stock filter, like an absent parameter.
C24_AsStated ==
  \A page \in ViewPageValues :
    /\ getAllBooks(StockQuery(page, Str("true"))).total
         = Num(Cardinality({b \in DOMAIN books : books[b].inStock = Bool(TRUE)}))
    /\ getAllBooks(StockQuery(page, Str("false"))).total
         = Num(Cardinality({b \in DOMAIN books : books[b].inStock = Bool(FALSE)}))
    /\ \A other \in {Str("yes"), Str("1"), Str("")} :
         getAllBooks(StockQuery(page, other)) = getAllBooks(StockQuery(page, Undefined))

\* A query of getAllBooks with rating bounds and no other filter.
BoundsQuery(page, a, b) ==
  [page |-> page, limit |-> Undefined, genre |-> Undefined, category |-> Undefined,
   inStock |-> Undefined, minRating |-> a, maxRating |-> b]
\* The Books whose rating is within the bounds that are given.
Within(a, b) ==
  {x \in DOMAIN books :
     /\ (a # Undefined => IsNum(books[x].rating) /\ books[x].rating[2] >= a[2])
     /\ (b # Undefined => IsNum(books[x].rating) /\ books[x].rating[2] <= b[2])}
\* C25: in getAllBooks minRating and maxRating apply independently: the
\* Books returned and counted are those with rating >= a when only
\* minRating=a is given, with rating <= b when only maxRating=b is given,
\* with a <= rating <= b when both are, and all Books when neither is; a
\* bound of 0 applies as any other.
C25_BoundsIndependent ==
  \A page \in ViewPageValues, a \in {Undefined, Numeral(0), Numeral(3)},
     b \in {Undefined, Numeral(0), Numeral(4)} :
    LET res == getAllBooks(BoundsQuery(page, a, b)) IN
    /\ res.total = Num(Cardinality(Within(a, b)))
    /\ \A i \in 1..Len(res.data) : res.data[i] \in Within(a, b)
\* getAllBooks answered on a store where both bounds together leave fewer
\* Books than either alone and more than none, and where the bound 0 leaves
\* out the Books without a rating.
C25_Witness ==
  /\ resp.op = "getAllBooks"
  /\ resp.count = Cardinality(Within(Numeral(3), Numeral(4)))
  /\ resp.count > 0
  /\ resp.count < Cardinality(Within(Numeral(3), Undefined))
  /\ resp.count < Cardinality(Within(Undefined, Numeral(4)))
  /\ Cardinality(Within(Numeral(0), Undefined)) < Cardinality(DOMAIN books)

\* The number of items of page p when n items match, l to the page:
\* min(l, max(0, n - (p - 1) * l)).
SliceSize(n, p, l) ==
  LET rest == IF n - (p - 1) * l > 0 THEN n - (p - 1) * l ELSE 0 IN Min(l, rest)
\* The ids on a page, and the pages 1..k holding every one of the ids S
\* exactly once.
Ids(data) == {data[i] : i \in 1..Len(data)}
ExactlyOnce(page, k, S) ==
  /\ \A p \in 1..k : Cardinality(Ids(page[p])) = Len(page[p])
  /\ \A p \in 1..k, r \in 1..k : p # r => Ids(page[p]) \cap Ids(page[r]) = {}
  /\ UNION {Ids(page[p]) : p \in 1..k} = S
\* C26 as stated: for page p >= 1 and limit l >= 1 a list endpoint returns
\* min(l, max(0, total - (p - 1) * l)) items, and on an unchanged store the
\* pages 1..totalPages together contain every matching item exactly once,
\* for getAllBooks and for getAllAuthors, whichever order the store returns
\* documents of equal sort key in for each of the page requests.
C26_AsStated ==
  \A l \in 1..MaxLimit :
    LET n == Cardinality(DOMAIN books)
        m == Cardinality(DOMAIN authors)
        bookPage(p) == getAllBooks([page |-> Numeral(p), limit |-> Numeral(l),
                                    genre |-> Undefined, category |-> Undefined,
                                    inStock |-> Undefined, minRating |-> Undefined,
                                    maxRating |-> Undefined])
        authorPage(p, ties) == getAllAuthors([page |-> Numeral(p), limit |-> Numeral(l),
                                              nationality |-> Undefined], ties)
    IN /\ \A p \in 1..MaxPage :
            /\ Len(bookPage(p).data) = SliceSize(n, p, l)
            /\ \A ties \in TieOrders : Len(authorPage(p, ties).data) = SliceSize(m, p, l)
       /\ ExactlyOnce([p \in 1..CeilDiv(n, l) |-> bookPage(p).data], CeilDiv(n, l),
                      DOMAIN books)
       /\ \A ties \in [1..CeilDiv(m, l) -> TieOrders] :
            ExactlyOnce([p \in 1..CeilDiv(m, l) |-> authorPage(p, ties[p]).data],
                        CeilDiv(m, l), DOMAIN authors)

\* C27 as stated: createBook with a body that has no author id fails as a
\* validation failure of a required field, status 400 and not 404, and
\* stores no Book.
C27_AsStated ==
  \A body \in BookBodies :
    IsNullish(body.author) =>
      LET r == createBook(body) IN
      /\ r.res.status = 400
      /\ r.res.success = FALSE
      /\ r.books = books

\* C28: deleteBook on the id of a stored Book removes that Book and changes
\* no other Book and no Author; on an id that is not stored, one deleted
\* before included, it answers 404 'Book not found' and changes nothing.
C28_DeleteBookFrame ==
  \A id \in BookIds :
    LET r == deleteBook(id) IN
    /\ r.authors = authors
    /\ IF id \in DOMAIN books
       THEN /\ r.res.status = 200
            /\ DOMAIN r.books = DOMAIN books \ {id}
            /\ \A b \in DOMAIN r.books : r.books[b] = books[b]
       ELSE /\ r.res.status = 404
            /\ r.res.message = Msg("Book not found")
            /\ r.books = books
\* A deleteBook was answered 404 after a Book had been deleted, with the
\* older of two Books gone and the other Book and the authors stored.
C28_Witness ==
  /\ resp.op = "deleteBook" /\ resp.status = 404
  /\ lastBookId = MaxBooks
  /\ DOMAIN books = {MaxBooks}
  /\ DOMAIN authors # {}

C30_FixedPathsFirst ==
  Len(resp.named) >= 2 =>
    LET path == SubSeq(resp.named, 3, Len(resp.named)) IN
    /\ resp.named[2] = Str("authors") =>
         /\ path = <<Str("search")>> => resp.op = "searchAuthors"
         /\ path = <<Str("top-by-books")>> => resp.op = "getTopAuthorsByBookCount"
         /\ path = <<Str("top-by-rating")>> => resp.op = "getTopAuthorsByRating"
         /\ path = <<Str("nationalities")>> => resp.op = "getAllNationalities"
         /\ (Len(path) = 2 /\ path[1][1] = "ObjectId" /\ path[2] = Str("stats"))
              => resp.op = "getAuthorStats"
         /\ resp.op = "getAuthorById" =>
              path \notin {<<Str("search")>>, <<Str("top-by-books")>>,
                           <<Str("top-by-rating")>>, <<Str("nationalities")>>}
    /\ (/\ resp.named[2] = Str("books")
        /\ \/ path \in {<<Str("stats"), Str("overview")>>, <<Str("top-rated-by-category")>>}
           \/ (Len(path) = 2 /\ path[1] \in {Str("author"), Str("category")}))
       => resp.op # "getBookById"
\* GET /api/authors/search, sent without a query, was answered by
\* searchAuthors.
C30_Witness ==
  /\ resp.named = <<Str("api"), Str("authors"), Str("search")>>
  /\ resp.op = "searchAuthors"
  /\ resp.status = 400
  /\ resp.message = Msg("Search query is required")

====
